---------------------------- MODULE Spec2Model ----------------------------
(***************************************************************************)
(* Tool entry points of src/gdocs/docs_tools.py, and modify_event,         *)
(* delete_event and update_task of the calendar and tasks tools, as a      *)
(* state machine.  Spec is one tool invocation against one remote          *)
(* resource; TasksSpec is two update_task invocations against one task.    *)
(*                                                                         *)
(* An offset k of the document's linear address space is position k + 1    *)
(* of the token sequence `doc`.  Optional parameters are sequences of      *)
(* length at most one: None is << >>, a supplied value v is << v >>.       *)
(***************************************************************************)
EXTENDS Integers, Sequences, FiniteSets, TLC

\* ------------------------------------------------------------------ bounds
MaxIndex == 4
MaxTextLen == 2
MaxDocLen == 2
MaxRows == 2
MaxCols == 2
MaxOps == 2
MaxNesting == 7
MaxChunks == 2
MaxReminders == 2

\* ---------------------------------------------------------------- optional
None == << >>

Some(v) == << v >>

IsNone(o) == o = << >>

Val(o) == o[1]

\* Python truthiness of an Optional[int] (None and 0 are falsy)
TruthyInt(o) == ~IsNone(o) /\ Val(o) # 0

\* Python truthiness of an Optional[str] (None and "" are falsy)
TruthyStr(o) == ~IsNone(o) /\ Val(o) # ""

\* ------------------------------------------------------------------ tokens
Chars == {"a", "b"}

\* text = "List item", the default of insert_doc_elements
ListItemText == <<"L", "i", "s", "t", " ", "i", "t", "e", "m">>

ParagraphTokens ==
    Chars \cup {"nl", "pb", "img"} \cup {ListItemText[i] : i \in 1..Len(ListItemText)}

StructuralTokens == {"sb", "tbl", "row", "cell", "tend"}

SeqsUpTo(S, n) == UNION {[1..k -> S] : k \in 0..n}

Texts == SeqsUpTo(Chars, MaxTextLen)

\* The header/footer identifier map of a document: for every section type
\* and variant, None (absent) or the text of that header/footer.
SectionTypes == {"header", "footer"}

Variants == {"DEFAULT", "FIRST_PAGE_ONLY", "EVEN_PAGE"}

\* The documents an invocation can meet: bodies (the section break at
\* offset 0, text, the final newline) without any header/footer, one of
\* them of two paragraphs of different characters,
\* and one body with a default header only or with every header and footer.
InitDocuments ==
    LET none == [k \in SectionTypes \X Variants |-> None]
        default == [none EXCEPT ![<<"header", "DEFAULT">>] = Some(<<"a">>)]
        every == [k \in SectionTypes \X Variants |->
                    IF k[1] = "header" THEN Some(<<"a", "b">>) ELSE Some(<< >>)]
    IN {[body |-> <<"sb">> \o t \o <<"nl">>, hf |-> none] :
            t \in SeqsUpTo({"a"}, MaxDocLen) \cup {<<"a", "nl", "b">>}}
       \cup {[body |-> <<"sb", "nl">>, hf |-> h] : h \in {default, every}}

DocIds == {"", "doc1"}

\* -------------------------------------------------------- request builders
create_insert_text_request(index, text) ==
    [op |-> "insertText", index |-> index, text |-> text]

create_delete_range_request(start_index, end_index) ==
    [op |-> "deleteContentRange", startIndex |-> start_index, endIndex |-> end_index]

create_format_text_request(start_index, end_index, bold, italic, underline, font_size, font_family) ==
    [op |-> "updateTextStyle", startIndex |-> start_index, endIndex |-> end_index,
     bold |-> bold, italic |-> italic, underline |-> underline,
     font_size |-> font_size, font_family |-> font_family]

create_insert_table_request(index, rows, columns) ==
    [op |-> "insertTable", index |-> index, rows |-> rows, columns |-> columns]

create_insert_page_break_request(index) ==
    [op |-> "insertPageBreak", index |-> index]

create_insert_image_request(index, image_uri, width, height) ==
    [op |-> "insertInlineImage", index |-> index, uri |-> image_uri,
     width |-> width, height |-> height]

create_bullet_list_request(start_index, end_index, list_type) ==
    [op |-> "createParagraphBullets", startIndex |-> start_index,
     endIndex |-> end_index, list_type |-> list_type]

\* --------------------------------------------------------- validation layer
validate_document_id(document_id) == document_id # ""

validate_text_formatting_params(bold, italic, underline, font_size, font_family) ==
    /\ \/ ~IsNone(bold) \/ ~IsNone(italic) \/ ~IsNone(underline)
       \/ ~IsNone(font_size) \/ ~IsNone(font_family)
    /\ IsNone(font_size) \/ Val(font_size) > 0
    /\ IsNone(font_family) \/ Val(font_family) # ""

\* an empty range passes
validate_index_range_AllowsEmpty(start_index, end_index) ==
    /\ start_index >= 0
    /\ IsNone(end_index) \/ Val(end_index) >= start_index

validate_index_range(start_index, end_index) ==
    /\ start_index >= 0
    /\ IsNone(end_index) \/ Val(end_index) > start_index

validate_index(index) == index >= 0

validate_header_footer_params(section_type, header_footer_type) ==
    section_type \in SectionTypes /\ header_footer_type \in Variants

validate_text_content(content) == Len(content) >= 1

\* What each operation type of a batch must carry.
RequiredFields ==
    [insert_text |-> {"index", "text"},
     delete_text |-> {"start_index", "end_index"},
     replace_text |-> {"start_index", "end_index", "text"},
     format_text |-> {"start_index", "end_index"},
     insert_table |-> {"index", "rows", "columns"},
     insert_page_break |-> {"index"}]

\* an empty list of operations passes
validate_batch_operations_AllowsEmpty(operations) ==
    \A i \in 1..Len(operations) :
        /\ "type" \in DOMAIN operations[i]
        /\ operations[i].type \in DOMAIN RequiredFields
        /\ RequiredFields[operations[i].type] \subseteq DOMAIN operations[i]

validate_batch_operations(operations) ==
    /\ Len(operations) >= 1
    /\ \A i \in 1..Len(operations) :
          /\ "type" \in DOMAIN operations[i]
          /\ operations[i].type \in DOMAIN RequiredFields
          /\ RequiredFields[operations[i].type] \subseteq DOMAIN operations[i]


\* -------------------------------------------------------- remote document
\* An error message is a sequence of fragments; a Python substring test
\* `phrase in message` is membership of the fragment.
BoundaryPhrase == "must be less than the end index"

Contains(message, phrase) == \E i \in 1..Len(message) : message[i] = phrase

BoundaryError == <<"Index ", BoundaryPhrase, " of the referenced segment">>

OtherError == <<"Invalid request">>

Accept(d) == [ok |-> TRUE, doc |-> d, err |-> << >>]

Reject(d, e) == [ok |-> FALSE, doc |-> d, err |-> e]

\* Insertions need an index inside a paragraph and below the end index of
\* the segment; a table is preceded by a newline the service adds.
ApplyInsert(d, k, toks) ==
    IF k >= Len(d) THEN Reject(d, BoundaryError)
    ELSE IF ~(k >= 1 /\ d[k + 1] \in ParagraphTokens) \/ toks = << >>
    THEN Reject(d, OtherError)
    ELSE Accept(SubSeq(d, 1, k) \o toks \o SubSeq(d, k + 1, Len(d)))

ApplyDelete(d, s, e) ==
    IF /\ s >= 1 /\ s < e /\ e < Len(d)
       /\ \A k \in s..(e - 1) :
            /\ d[k + 1] \in ParagraphTokens
            /\ d[k + 1] = "nl" => d[k + 2] \notin StructuralTokens
    THEN Accept(SubSeq(d, 1, s) \o SubSeq(d, e + 1, Len(d)))
    ELSE Reject(d, OtherError)

\* A request applied to the document; an inserted table is the tokens of
\* an empty rows x columns table, every cell holding one empty paragraph.
ApplyRequest(d, r) ==
    LET TableTokens(rows, columns) ==
            LET rowLen == 1 + 2 * columns
                total == 2 + rows * rowLen
            IN [p \in 1..total |->
                  IF p = 1 THEN "tbl"
                  ELSE IF p = total THEN "tend"
                  ELSE LET j == (p - 2) % rowLen
                       IN IF j = 0 THEN "row"
                          ELSE IF (j - 1) % 2 = 0 THEN "cell" ELSE "nl"]
        ApplyRange(s, e) ==
            IF s >= 1 /\ s < e /\ e <= Len(d) THEN Accept(d) ELSE Reject(d, OtherError)
    IN
    CASE r.op = "insertText" -> ApplyInsert(d, r.index, r.text)
      [] r.op = "deleteContentRange" -> ApplyDelete(d, r.startIndex, r.endIndex)
      [] r.op = "updateTextStyle" -> ApplyRange(r.startIndex, r.endIndex)
      [] r.op = "createParagraphBullets" -> ApplyRange(r.startIndex, r.endIndex)
      [] r.op = "insertTable" ->
            ApplyInsert(d, r.index, <<"nl">> \o TableTokens(r.rows, r.columns))
      [] r.op = "insertPageBreak" -> ApplyInsert(d, r.index, <<"pb">>)
      [] r.op = "insertInlineImage" -> ApplyInsert(d, r.index, <<"img">>)
      [] OTHER -> Reject(d, OtherError)

\* A batch is atomic: the first rejected request rejects the whole batch.
RECURSIVE ApplyFrom(_, _, _, _)
ApplyFrom(d0, d, reqs, i) ==
    IF i > Len(reqs) THEN Accept(d)
    ELSE LET r == ApplyRequest(d, reqs[i])
         IN IF r.ok THEN ApplyFrom(d0, r.doc, reqs, i + 1) ELSE Reject(d0, r.err)

ApplyBatch(d, reqs) ==
    IF reqs = << >> THEN Reject(d, OtherError) ELSE ApplyFrom(d, d, reqs, 1)

\* ------------------------------------------------------------------ state
VARIABLES pc, tool, args, calls, mgr, result, doc, hf, loc

vars == <<pc, tool, args, calls, mgr, result, doc, hf, loc>>

TextResult(prefix) == [kind |-> "text", prefix |-> prefix]

Raised == [kind |-> "raised", prefix |-> ""]

Init ==
    /\ pc = "idle"
    /\ tool = "none"
    /\ args = << >>
    /\ calls = << >>
    /\ mgr = << >>
    /\ result = [kind |-> "none", prefix |-> ""]
    /\ \E d \in InitDocuments : doc = d.body /\ hf = d.hf
    /\ loc = << >>

\* The tool returns `r` without issuing anything.
ReturnNow(r) ==
    /\ pc' = "done"
    /\ result' = r
    /\ UNCHANGED <<calls, mgr, doc, hf, loc>>

\* The tool offloads one documents().batchUpdate and awaits it.
IssueBatchUpdate(requests) ==
    /\ pc' = "await_batchUpdate"
    /\ calls' = Append(calls, [api |-> "docs.batchUpdate", via |-> "to_thread", requests |-> requests])
    /\ UNCHANGED <<mgr, result, doc, hf, loc>>

\* The call the invocation is awaiting.
LastCall == calls[Len(calls)]

\* ---------------------------------------------------------- modify_doc_text
Indexes == (0 - 1)..MaxIndex

\* Every combination for a well-formed document id, a few for a malformed one.
ModifyDocTextArgs ==
    LET OptIndexes == {None} \cup {Some(i) : i \in Indexes}
        OptTexts == {None} \cup {Some(t) : t \in Texts}
        FormatChoices ==
            LET F(b, i, u, s, f) ==
                  [bold |-> b, italic |-> i, underline |-> u, font_size |-> s, font_family |-> f]
            IN {F(None, None, None, None, None),
                F(Some(TRUE), None, None, None, None),
                F(Some(FALSE), None, None, None, None),
                F(None, Some(TRUE), None, None, None),
                F(None, None, Some(FALSE), None, None),
                F(None, None, None, Some(12), None),
                F(None, None, None, Some(0), None),
                F(None, None, None, Some(0 - 1), None),
                F(Some(TRUE), None, None, Some(0), None),
                F(None, None, None, None, Some("Arial")),
                F(None, None, None, None, Some(""))}
    IN {[document_id |-> "doc1", start_index |-> s, end_index |-> e, text |-> t,
         fmt |-> f] :
            s \in Indexes, e \in OptIndexes, t \in OptTexts, f \in FormatChoices}
       \cup {[document_id |-> "", start_index |-> 0, end_index |-> e, text |-> t,
              fmt |-> f] :
            e \in {None, Some(1)}, t \in {None, Some(<<"a">>)}, f \in FormatChoices}

\* any([bold is not None, italic is not None, underline is not None, font_size, font_family])
HasFormatting(f) ==
    \/ ~IsNone(f.bold) \/ ~IsNone(f.italic) \/ ~IsNone(f.underline)
    \/ TruthyInt(f.font_size) \/ TruthyStr(f.font_family)

IsReplacement(start_index, end_index) ==
    ~IsNone(end_index) /\ Val(end_index) > start_index

\* the insertion branch without the redirection of index 0
ActualIndex_NoRedirect(start_index) == start_index

\* actual_index = 1 if start_index == 0 else start_index
ActualIndex(start_index) == IF start_index = 0 THEN 1 ELSE start_index

\* the replacement at index 0 emitted like any other replacement
ReplaceAtZeroRequests_DeleteFirst(end_index, text) ==
    <<create_delete_range_request(0, Val(end_index)),
      create_insert_text_request(0, text)>>

ReplaceAtZeroRequests(end_index, text) ==
    <<create_insert_text_request(1, text),
      create_delete_range_request(1 + Len(text), Val(end_index) + Len(text))>>

\* the new text is inserted before the old text is deleted, at the same offsets
ReplaceRequests_InsertFirst(start_index, end_index, text) ==
    <<create_insert_text_request(start_index, text),
      create_delete_range_request(start_index, Val(end_index))>>

ReplaceRequests(start_index, end_index, text) ==
    <<create_delete_range_request(start_index, Val(end_index)),
      create_insert_text_request(start_index, text)>>

TextRequests(start_index, end_index, text) ==
    IF IsNone(text) THEN << >>
    ELSE IF IsReplacement(start_index, end_index)
         THEN IF start_index = 0
              THEN ReplaceAtZeroRequests(end_index, Val(text))
              ELSE ReplaceRequests(start_index, end_index, Val(text))
         ELSE <<create_insert_text_request(ActualIndex(start_index), Val(text))>>

\* the range is sent as computed, without the index-0 and empty-range adjustments
FormatRequests_Unadjusted(start_index, end_index, text, f) ==
    IF HasFormatting(f)
    THEN LET range == IF IsNone(text) THEN <<start_index, Val(end_index)>>
                      ELSE IF IsReplacement(start_index, end_index)
                      THEN <<start_index, start_index + Len(Val(text))>>
                      ELSE <<ActualIndex(start_index), ActualIndex(start_index) + Len(Val(text))>>
         IN <<create_format_text_request(range[1], range[2], f.bold, f.italic,
                                         f.underline, f.font_size, f.font_family)>>
    ELSE << >>

FormatRequests(start_index, end_index, text, f) ==
    IF HasFormatting(f)
    THEN LET actual_index == ActualIndex(start_index)
             \* the range before the index-0 and empty-range adjustments
             range == IF IsNone(text) THEN <<start_index, Val(end_index)>>
                      ELSE IF IsReplacement(start_index, end_index)
                      THEN <<start_index, start_index + Len(Val(text))>>
                      ELSE <<actual_index, actual_index + Len(Val(text))>>
             format_start == IF range[1] = 0 THEN 1 ELSE range[1]
             format_end == IF range[2] <= format_start THEN format_start + 1 ELSE range[2]
         IN <<create_format_text_request(format_start, format_end, f.bold, f.italic,
                                         f.underline, f.font_size, f.font_family)>>
    ELSE << >>

ModifyDocTextRequests(a) ==
    TextRequests(a.start_index, a.end_index, a.text)
    \o FormatRequests(a.start_index, a.end_index, a.text, a.fmt)

\* the index range of a formatting request is not checked
ModifyDocTextValid_NoRangeCheck(a) ==
    /\ validate_document_id(a.document_id)
    /\ ~IsNone(a.text) \/ HasFormatting(a.fmt)
    /\ HasFormatting(a.fmt) =>
         /\ validate_text_formatting_params(a.fmt.bold, a.fmt.italic, a.fmt.underline,
                                            a.fmt.font_size, a.fmt.font_family)
         /\ ~IsNone(a.end_index)

ModifyDocTextValid(a) ==
    /\ validate_document_id(a.document_id)
    /\ ~IsNone(a.text) \/ HasFormatting(a.fmt)
    /\ HasFormatting(a.fmt) =>
         /\ validate_text_formatting_params(a.fmt.bold, a.fmt.italic, a.fmt.underline,
                                            a.fmt.font_size, a.fmt.font_family)
         /\ ~IsNone(a.end_index)
         /\ validate_index_range(a.start_index, a.end_index)

modify_doc_text ==
    /\ pc = "idle"
    /\ \E a \in ModifyDocTextArgs :
        /\ tool' = "modify_doc_text"
        /\ args' = a
        /\ IF ModifyDocTextValid(a)
           THEN IssueBatchUpdate(ModifyDocTextRequests(a))
           ELSE ReturnNow(TextResult("Error:"))

\* ------------------------------------------------------ insert_doc_elements
InsertDocElementsArgs ==
    {[document_id |-> d, element_type |-> et, index |-> i, rows |-> r, columns |-> c,
      list_type |-> lt, text |-> t] :
        d \in DocIds, et \in {"table", "list", "page_break", "chart"}, i \in Indexes,
        r \in {None, Some(0), Some(1)}, c \in {None, Some(2)},
        lt \in {None, Some("UNORDERED")}, t \in {None, Some(<< >>), Some(<<"a">>)}}

\* if index == 0: index = 1
ElementIndex(index) == IF index = 0 THEN 1 ELSE index

InsertDocElementsValid(a) ==
    CASE a.element_type = "table" -> TruthyInt(a.rows) /\ TruthyInt(a.columns)
      [] a.element_type = "list" -> TruthyStr(a.list_type)
      [] a.element_type = "page_break" -> TRUE
      [] OTHER -> FALSE

InsertDocElementsRequests(a) ==
    LET index == ElementIndex(a.index)
        \* if not text: text = "List item"
        text == IF IsNone(a.text) \/ Val(a.text) = << >> THEN ListItemText ELSE Val(a.text)
    IN CASE a.element_type = "table" ->
              <<create_insert_table_request(index, Val(a.rows), Val(a.columns))>>
         [] a.element_type = "list" ->
              <<create_insert_text_request(index, Append(text, "nl")),
                create_bullet_list_request(index, index + Len(text),
                                           Val(a.list_type))>>
         [] a.element_type = "page_break" ->
              <<create_insert_page_break_request(index)>>

insert_doc_elements ==
    /\ pc = "idle"
    /\ \E a \in InsertDocElementsArgs :
        /\ tool' = "insert_doc_elements"
        /\ args' = a
        /\ IF InsertDocElementsValid(a)
           THEN IssueBatchUpdate(InsertDocElementsRequests(a))
           ELSE ReturnNow(TextResult("Error:"))

\* --------------------------------------------------------- insert_doc_image
\* Strings tested with startswith are sequences of fragments.
StartsWith(str, prefix) == Len(str) >= 1 /\ str[1] = prefix

InsertDocImageArgs ==
    {[document_id |-> d, image_source |-> src, index |-> i, width |-> w, height |-> h] :
        d \in DocIds,
        src \in {<<"http://", "host/pic">>, <<"https://", "host/pic">>,
                 <<"ftp://", "host/pic">>, <<"driveFileId">>},
        i \in Indexes,
        w \in {None, Some(100)}, h \in {None}}

\* if index == 0: index = 1
ImageIndex(index) == IF index = 0 THEN 1 ELSE index

is_drive_file(image_source) ==
    ~(StartsWith(image_source, "http://") \/ StartsWith(image_source, "https://"))

\* file_metadata.get('mimeType', '').startswith('image/')
IsImageMime(file_metadata) ==
    ~IsNone(file_metadata.mimeType) /\ StartsWith(Val(file_metadata.mimeType), "image/")

DriveImageUri(image_source) == <<"https://", "drive.google.com/uc?id=">> \o image_source

InsertDocImageRequests(a, image_uri) ==
    <<create_insert_image_request(ImageIndex(a.index), image_uri, a.width, a.height)>>

insert_doc_image ==
    /\ pc = "idle"
    /\ \E a \in InsertDocImageArgs :
        /\ tool' = "insert_doc_image"
        /\ args' = a
        /\ IF is_drive_file(a.image_source)
           THEN /\ pc' = "await_files_get"
                /\ calls' = Append(calls, [api |-> "drive.files.get", via |-> "to_thread",
                                           fileId |-> a.image_source])
                /\ UNCHANGED <<mgr, result, doc, hf, loc>>
           ELSE IssueBatchUpdate(InsertDocImageRequests(a, a.image_source))

\* files().get returned metadata: a non-image ends the tool, an image is
\* inserted by its Drive URI.
FilesGetReturn ==
    /\ pc = "await_files_get"
    /\ \E file_metadata \in {[mimeType |-> Some(<<"image/", "png">>)],
                             [mimeType |-> Some(<<"application/pdf">>)],
                             [mimeType |-> None]} :
        /\ IF IsImageMime(file_metadata)
           THEN IssueBatchUpdate(InsertDocImageRequests(args, DriveImageUri(args.image_source)))
           ELSE ReturnNow(TextResult("Error:"))
        /\ UNCHANGED <<tool, args>>

\* files().get raised: the except clause turns it into an error text.
FilesGetFail ==
    /\ pc = "await_files_get"
    /\ ReturnNow(TextResult("Error:"))
    /\ UNCHANGED <<tool, args>>

\* ------------------------------------------------- document structure parser
\* The offsets of a table's tokens: from its "tbl" token at offset t to the
\* first "tend" after it.
TableEnd(d, t) ==
    CHOOSE e \in t..(Len(d) - 1) :
        /\ d[e + 1] = "tend"
        /\ \A k \in t..(e - 1) : d[k + 1] # "tend"

IsTableAt(d, t) ==
    /\ t >= 0 /\ t < Len(d) /\ d[t + 1] = "tbl"
    /\ \E e \in t..(Len(d) - 1) : d[e + 1] = "tend"

\* Offsets of the row markers and of the cell markers of the table at t.
RowMarks(d, t) == {k \in t..TableEnd(d, t) : d[k + 1] = "row"}

CellMarks(d, t) == {k \in t..TableEnd(d, t) : d[k + 1] = "cell"}

\* 0-based row and column of the cell whose marker is at offset k.
RowOf(d, t, k) == Cardinality({m \in RowMarks(d, t) : m < k}) - 1

ColumnOf(d, t, k) ==
    LET row == CHOOSE m \in RowMarks(d, t) :
                   m < k /\ \A n \in RowMarks(d, t) : n < k => n <= m
    IN Cardinality({m \in CellMarks(d, t) : row < m /\ m < k})

\* The offset of the marker of cell (r, c), both 0-based.
CellStart(d, t, r, c) ==
    CHOOSE k \in CellMarks(d, t) : RowOf(d, t, k) = r /\ ColumnOf(d, t, k) = c

HasCell(d, t, r, c) ==
    \E k \in CellMarks(d, t) : RowOf(d, t, k) = r /\ ColumnOf(d, t, k) = c

\* The first structural token after the cell marker ends the cell.
CellEnd(d, t, r, c) ==
    LET k == CellStart(d, t, r, c)
    IN CHOOSE e \in (k + 1)..TableEnd(d, t) :
           /\ d[e + 1] \in StructuralTokens
           /\ \A m \in (k + 1)..(e - 1) : d[m + 1] \notin StructuralTokens

\* The cell's marker occupies an offset: text goes one past it.
insertion_offset(d, t, r, c) == CellStart(d, t, r, c) + 1

\* The cell's text without the newline that ends its paragraph.
CellText(d, t, r, c) ==
    SubSeq(d, insertion_offset(d, t, r, c) + 1, CellEnd(d, t, r, c) - 1)

TableRowCount(d, t) == Cardinality(RowMarks(d, t))

TableColumnCount(d, t) == Cardinality({k \in CellMarks(d, t) : RowOf(d, t, k) = 0})

\* ------------------------------------------------- validate_table_data input
\* A grid of strings laid out so that neighbouring cells differ, some of
\* them empty.
GridOf(rows, columns, p) ==
    LET CellTexts == <<<< >>, <<"b", "a">>, <<"a">>>>
    IN [r \in 1..rows |-> [c \in 1..columns |->
           CellTexts[1 + ((r * columns + c + p) % 3)]]]

Grids == {GridOf(r, c, p) : r \in 1..MaxRows, c \in 1..MaxCols, p \in 0..2}

validate_table_data(table_data) ==
    /\ Len(table_data) >= 1
    /\ Len(table_data[1]) >= 1
    /\ \A r \in 1..Len(table_data) :
          /\ Len(table_data[r]) = Len(table_data[1])
          /\ \A c \in 1..Len(table_data[r]) :
                \A i \in 1..Len(table_data[r][c]) : table_data[r][c][i] \in Chars

\* ---------------------------------------------------- TableOperationManager
\* The two strategies that keep every offset valid when it is used:
\* "reverse": one structure fetch, cells filled last to first;
\* "recompute": cells filled first to last, the structure re-fetched before
\* every insertion.
NonEmptyCells(table_data) ==
    {rc \in (0..(Len(table_data) - 1)) \X (0..(Len(table_data[1]) - 1)) :
        table_data[rc[1] + 1][rc[2] + 1] # << >>}

\* the cells are filled first to last whether or not offsets are re-fetched
NextCells_FirstToLast(l, table_data) ==
    {rc \in l.pending :
        \A o \in l.pending :
            o[1] * Len(table_data[1]) + o[2] >= rc[1] * Len(table_data[1]) + rc[2]}

\* The cell the manager fills next.
NextCells(l, table_data) ==
    LET Linear(td, rc) == rc[1] * Len(td[1]) + rc[2]
    IN
    IF l.mode = "reverse"
    THEN {rc \in l.pending :
            \A o \in l.pending : Linear(table_data, o) <= Linear(table_data, rc)}
    ELSE {rc \in l.pending :
            \A o \in l.pending : Linear(table_data, o) >= Linear(table_data, rc)}

IssueGet ==
    /\ pc' = "tm_await_get"
    /\ calls' = Append(calls, [api |-> "docs.get", via |-> "to_thread"])

\* create_and_populate_table starts: InsertTable(index, rows, columns).
\* `returned` is the earlier attempts with their results.
StartAttempt(n, index, mode, returned) ==
        /\ mgr' = Append(returned, [document_id |-> args'.document_id,
                                    table_data |-> args'.table_data,
                                    index |-> index,
                                    bold_headers |-> args'.bold_headers,
                                    returned |-> None])
        /\ calls' = Append(calls, [api |-> "docs.batchUpdate", via |-> "to_thread",
                                   requests |-> <<create_insert_table_request(
                                       index, Len(args'.table_data),
                                       Len(args'.table_data[1]))>>])
        /\ loc' = [attempt |-> n, index |-> index, mode |-> mode,
                   pending |-> NonEmptyCells(args'.table_data),
                   offsets |-> << >>, header |-> << >>, cell |-> << >>,
                   bold_pending |-> args'.bold_headers]
        /\ pc' = "tm_await_insert_table"
        /\ UNCHANGED result

\* ---------------------------------------------------- create_table_with_data
\* The grids are well formed, empty, ragged, or hold a cell that is None
\* instead of a string.
CreateTableArgs ==
    LET BadGrids == {<< >>, << << >> >>, << <<<<"<None>">>>> >>,
                     << <<<<"a">>>>, <<<<"a">>, <<"b">>>> >>}
    IN {[document_id |-> d, table_data |-> g, index |-> i, bold_headers |-> b] :
            d \in DocIds, g \in Grids \cup BadGrids, i \in Indexes, b \in BOOLEAN}

CreateTableValid(a) ==
    /\ validate_document_id(a.document_id)
    /\ validate_table_data(a.table_data)
    /\ validate_index(a.index)

\* the index of the retry
RetryIndex(index) == index - 1

\* every failure is retried
ShouldRetry_AnyFailure(success, message) == ~success

\* if not success and "must be less than the end index" in message
ShouldRetry(success, message) == ~success /\ Contains(message, BoundaryPhrase)

\* the test is repeated after every attempt
RetryAllowed_EveryAttempt(attempt, success, message) == ShouldRetry(success, message)

\* The test is made once, after the first attempt only.
RetryAllowed(attempt, success, message) == attempt = 1 /\ ShouldRetry(success, message)

SuccessResult(a, metadata) ==
    [kind |-> "text", prefix |-> "SUCCESS:", rows |-> metadata.rows,
     columns |-> metadata.columns, index |-> a.index]

create_table_with_data ==
    /\ pc = "idle"
    /\ \E a \in CreateTableArgs :
        /\ tool' = "create_table_with_data"
        /\ args' = a
        /\ IF CreateTableValid(a)
           THEN /\ \E mode \in {"reverse", "recompute"} :
                    StartAttempt(1, a.index, mode, << >>)
                /\ UNCHANGED <<doc, hf>>
           ELSE ReturnNow(TextResult("ERROR:"))

\* The attempts so far, the running one having returned (success, message)
\* from the step `pc` it was at.
Returned(success, message) ==
    [mgr EXCEPT ![Len(mgr)].returned =
        Some([success |-> success, message |-> message, at |-> pc])]

\* create_and_populate_table returned (success, message, metadata) to the
\* tool, its locals being l: the first attempt is retried once on a
\* boundary error.
ManagerReturns(l, success, message, metadata) ==
    /\ UNCHANGED <<tool, args>>
    /\ IF RetryAllowed(l.attempt, success, message)
       THEN StartAttempt(2, RetryIndex(args.index), l.mode, Returned(success, message))
       ELSE /\ pc' = "done"
            /\ result' = IF success THEN SuccessResult(args, metadata)
                         ELSE TextResult("ERROR:")
            /\ mgr' = Returned(success, message)
            /\ loc' = l
            /\ UNCHANGED calls

\* What the manager does once it holds current offsets in l: it fills the
\* next cell, then makes the header row bold, then returns.
Proceed(l) ==
    IF l.pending # {}
    THEN /\ \E rc \in NextCells(l, args.table_data) :
            /\ calls' = Append(calls,
                    [api |-> "docs.batchUpdate", via |-> "to_thread",
                     requests |-> <<create_insert_text_request(
                         l.offsets[rc], args.table_data[rc[1] + 1][rc[2] + 1])>>])
            /\ loc' = [l EXCEPT !.cell = rc]
         /\ pc' = "tm_await_insert_text"
         /\ UNCHANGED <<tool, args, mgr, result>>
    ELSE IF l.bold_pending
    THEN /\ pc' = "tm_await_format"
         /\ calls' = Append(calls,
                [api |-> "docs.batchUpdate", via |-> "to_thread",
                 requests |-> <<create_format_text_request(
                     l.header[1], l.header[2], Some(TRUE), None, None, None, None)>>])
         /\ loc' = l
         /\ UNCHANGED <<tool, args, mgr, result>>
    ELSE ManagerReturns(l, TRUE, <<"Successfully created table">>,
                        [rows |-> Len(args.table_data),
                         columns |-> Len(args.table_data[1])])

\* The InsertTable batch returns.
TmInsertTableReturn ==
    /\ UNCHANGED hf
    /\ pc = "tm_await_insert_table"
    /\ LET r == ApplyBatch(doc, LastCall.requests)
       IN /\ doc' = r.doc
          /\ IF r.ok
             THEN IssueGet /\ UNCHANGED <<tool, args, mgr, result, loc>>
             ELSE ManagerReturns(loc, FALSE, <<"API error: ">> \o r.err, << >>)

\* The structure fetch returns: the new table is located and its cells'
\* insertion offsets are read.
TmGetReturn ==
    /\ UNCHANGED hf
    /\ pc = "tm_await_get"
    /\ UNCHANGED doc
    /\ IF IsTableAt(doc, loc.index + 1)
       THEN Proceed([loc EXCEPT
                !.offsets = [rc \in NonEmptyCells(args.table_data) |->
                                insertion_offset(doc, loc.index + 1, rc[1], rc[2])],
                !.header = <<CellStart(doc, loc.index + 1, 0, 0),
                             CellEnd(doc, loc.index + 1, 0,
                                     Len(args.table_data[1]) - 1)>>])
       ELSE ManagerReturns(loc, FALSE, <<"Could not find the created table">>, << >>)

\* every later insertion reuses the offsets of the one fetch
KeepsOffsets_Always(l) == l.pending # {}

\* The offsets read by the last fetch stay valid only for cells that lie
\* before every cell filled since.
KeepsOffsets(l) == l.mode = "reverse" /\ l.pending # {}

\* A cell's InsertText batch returns.
TmInsertTextReturn ==
    /\ UNCHANGED hf
    /\ pc = "tm_await_insert_text"
    /\ LET r == ApplyBatch(doc, LastCall.requests)
           l == [loc EXCEPT !.pending = loc.pending \ {loc.cell}]
       IN /\ doc' = r.doc
          /\ IF ~r.ok THEN ManagerReturns(loc, FALSE, <<"API error: ">> \o r.err, << >>)
             ELSE IF KeepsOffsets(l)
             THEN Proceed(l)
             ELSE IF l.pending # {} \/ l.bold_pending
             THEN IssueGet /\ loc' = l /\ UNCHANGED <<tool, args, mgr, result>>
             ELSE Proceed(l)

\* The header row's FormatText batch returns.
TmFormatReturn ==
    /\ UNCHANGED hf
    /\ pc = "tm_await_format"
    /\ LET r == ApplyBatch(doc, LastCall.requests)
       IN /\ doc' = r.doc
          /\ IF r.ok
             THEN Proceed([loc EXCEPT !.bold_pending = FALSE])
             ELSE ManagerReturns(loc, FALSE, <<"API error: ">> \o r.err, << >>)

\* A remote call of the manager fails without taking effect.
TmCallFail ==
    /\ pc \in {"tm_await_insert_table", "tm_await_get", "tm_await_insert_text",
               "tm_await_format"}
    /\ UNCHANGED <<doc, hf>>
    /\ ManagerReturns(loc, FALSE, <<"API error: ">> \o OtherError, << >>)

\* A cell's InsertText is rejected at the boundary: the document was
\* shortened by someone else after the structure fetch.
TmInsertTextBoundary ==
    /\ pc = "tm_await_insert_text"
    /\ UNCHANGED <<doc, hf>>
    /\ ManagerReturns(loc, FALSE, <<"API error: ">> \o BoundaryError, << >>)

\* ------------------------------------------------------ HeaderFooterManager
HeaderFooterArgs ==
    {[document_id |-> d, section_type |-> st, content |-> c, header_footer_type |-> v] :
        d \in DocIds, st \in SectionTypes \cup {"body"}, c \in Texts,
        v \in Variants \cup {"ODD_PAGE"}}

HeaderFooterValid(a) ==
    /\ validate_document_id(a.document_id)
    /\ validate_header_footer_params(a.section_type, a.header_footer_type)
    /\ validate_text_content(a.content)

HFKey(a) == <<a.section_type, a.header_footer_type>>

\* The create call for a header/footer of the requested variant.
CreateRequests(a) ==
    <<[op |-> IF a.section_type = "header" THEN "createHeader" ELSE "createFooter",
       type |-> a.header_footer_type]>>

\* Replace the entire text of the header/footer: delete what is there,
\* insert the new content.  Offsets are relative to its own segment.
ReplaceContentRequests(a, existing) ==
    (IF existing = << >> THEN << >>
     ELSE <<[op |-> "deleteContentRange", segment |-> HFKey(a),
             startIndex |-> 0, endIndex |-> Len(existing)]>>)
    \o <<[op |-> "insertText", segment |-> HFKey(a), index |-> 0, text |-> a.content]>>

\* every update creates the header/footer first
IsAbsent_Always(identifiers, key) == TRUE

\* No identifier for the requested variant means Absent.
IsAbsent(identifiers, key) == IsNone(identifiers[key])

\* update_doc_headers_footers validates, then hands over to
\* update_header_footer_content, which first reads the document.
update_doc_headers_footers ==
    /\ pc = "idle"
    /\ \E a \in HeaderFooterArgs :
        /\ tool' = "update_doc_headers_footers"
        /\ args' = a
        /\ IF HeaderFooterValid(a)
           THEN /\ mgr' = <<[manager |-> "update_header_footer_content",
                             document_id |-> a.document_id,
                             section_type |-> a.section_type,
                             content |-> a.content,
                             header_footer_type |-> a.header_footer_type]>>
                /\ calls' = Append(calls, [api |-> "docs.get", via |-> "to_thread"])
                /\ loc' = [state |-> "Unknown", found |-> None]
                /\ pc' = "hf_await_get"
                /\ UNCHANGED <<result, doc, hf>>
           ELSE ReturnNow(TextResult("Error:"))

\* (success, message) is returned to the tool.
HfManagerReturns(success) ==
    /\ pc' = "done"
    /\ result' = IF success THEN TextResult("") ELSE TextResult("Error:")

\* The identifier map was read: Absent leads to a create call, Present to
\* the replacement of the content.
HfGetReturn ==
    /\ pc = "hf_await_get"
    /\ IF IsAbsent(hf, HFKey(args))
       THEN /\ calls' = Append(calls, [api |-> "docs.batchUpdate", via |-> "to_thread",
                                       requests |-> CreateRequests(args)])
            /\ loc' = [state |-> "Absent", found |-> hf[HFKey(args)]]
            /\ pc' = "hf_await_create"
       ELSE /\ calls' = Append(calls, [api |-> "docs.batchUpdate", via |-> "to_thread",
                                       requests |-> ReplaceContentRequests(
                                           args, IF IsNone(hf[HFKey(args)]) THEN << >>
                                                 ELSE Val(hf[HFKey(args)]))])
            /\ loc' = [state |-> "Present", found |-> hf[HFKey(args)]]
            /\ pc' = "hf_await_replace"
    /\ UNCHANGED <<tool, args, mgr, result, doc, hf>>

\* The create call returned: the header/footer exists and is empty.  The
\* service rejects the creation of a header/footer that exists.
HfCreateReturn ==
    /\ pc = "hf_await_create"
    /\ IF IsNone(hf[HFKey(args)])
       THEN /\ hf' = [hf EXCEPT ![HFKey(args)] = Some(<< >>)]
            /\ calls' = Append(calls, [api |-> "docs.batchUpdate", via |-> "to_thread",
                                       requests |-> ReplaceContentRequests(args, << >>)])
            /\ loc' = [loc EXCEPT !.state = "Created"]
            /\ pc' = "hf_await_replace"
            /\ UNCHANGED result
       ELSE HfManagerReturns(FALSE) /\ UNCHANGED <<calls, hf, loc>>
    /\ UNCHANGED <<tool, args, mgr, doc>>

\* The content replacement returned.
HfReplaceReturn ==
    /\ pc = "hf_await_replace"
    /\ hf' = [hf EXCEPT ![HFKey(args)] = Some(args.content)]
    /\ loc' = [loc EXCEPT !.state = "Updated"]
    /\ HfManagerReturns(TRUE)
    /\ UNCHANGED <<tool, args, calls, mgr, doc>>

\* A remote call of the manager fails without taking effect.
HfCallFail ==
    /\ pc \in {"hf_await_get", "hf_await_create", "hf_await_replace"}
    /\ HfManagerReturns(FALSE)
    /\ UNCHANGED <<tool, args, calls, mgr, doc, hf, loc>>

\* ----------------------------------------------------- BatchOperationManager
BatchUpdateArgs ==
    LET Intents ==
        {[type |-> "insert_text", index |-> 1, text |-> <<"a", "b">>],
         [type |-> "insert_text", index |-> 2, text |-> <<"b">>],
         [type |-> "delete_text", start_index |-> 1, end_index |-> 2],
         [type |-> "replace_text", start_index |-> 1, end_index |-> 2, text |-> <<"b">>],
         [type |-> "format_text", start_index |-> 1, end_index |-> 3, bold |-> Some(TRUE)],
         [type |-> "insert_table", index |-> 1, rows |-> 1, columns |-> 1],
         [type |-> "insert_page_break", index |-> 1],
         [type |-> "insert_text", text |-> <<"a">>],
         [type |-> "insert_chart", index |-> 1]}
    IN {[document_id |-> d, operations |-> ops] :
            d \in DocIds, ops \in SeqsUpTo(Intents, MaxOps)}

BatchUpdateValid(a) ==
    /\ validate_document_id(a.document_id)
    /\ validate_batch_operations(a.operations)

\* One intent becomes one or more requests, with the offsets it carries.
Translate(intent) ==
    CASE intent.type = "insert_text" ->
            <<create_insert_text_request(intent.index, intent.text)>>
      [] intent.type = "delete_text" ->
            <<create_delete_range_request(intent.start_index, intent.end_index)>>
      [] intent.type = "replace_text" ->
            <<create_delete_range_request(intent.start_index, intent.end_index),
              create_insert_text_request(intent.start_index, intent.text)>>
      [] intent.type = "format_text" ->
            <<create_format_text_request(intent.start_index, intent.end_index,
                                         intent.bold, None, None, None, None)>>
      [] intent.type = "insert_table" ->
            <<create_insert_table_request(intent.index, intent.rows, intent.columns)>>
      [] intent.type = "insert_page_break" ->
            <<create_insert_page_break_request(intent.index)>>

\* the requests of each intent are put before those of the earlier intents
RECURSIVE BuildBatch_Prepend(_, _)
BuildBatch_Prepend(operations, n) ==
    IF n = 0 THEN << >>
    ELSE LET reqs == Translate(operations[n])
         IN [k \in 1..Len(reqs) |-> [request |-> reqs[k], intent |-> n]]
            \o BuildBatch_Prepend(operations, n - 1)

\* the text inserted by earlier intents is added to the offsets of later ones
InsertedLength(intent) == IF intent.type = "insert_text" THEN Len(intent.text) ELSE 0

RECURSIVE Drift(_, _)
Drift(operations, n) ==
    IF n = 0 THEN 0 ELSE Drift(operations, n - 1) + InsertedLength(operations[n])

Shifted(intent, d) ==
    [f \in DOMAIN intent |->
        IF f \in {"index", "start_index", "end_index"} THEN intent[f] + d ELSE intent[f]]

RECURSIVE BuildBatch_Drift(_, _)
BuildBatch_Drift(operations, n) ==
    IF n = 0 THEN << >>
    ELSE LET reqs == Translate(Shifted(operations[n], Drift(operations, n - 1)))
         IN BuildBatch_Drift(operations, n - 1)
            \o [k \in 1..Len(reqs) |-> [request |-> reqs[k], intent |-> n]]

\* The requests of the first n intents, in input order, each paired with
\* the position of the intent that produced it.
RECURSIVE BuildBatch(_, _)
BuildBatch(operations, n) ==
    IF n = 0 THEN << >>
    ELSE LET reqs == Translate(operations[n])
         IN BuildBatch(operations, n - 1)
            \o [k \in 1..Len(reqs) |-> [request |-> reqs[k], intent |-> n]]

\* execute_batch_operations: translate every intent, submit once.
ExecuteBatchOperations(document_id, operations) ==
    LET built == BuildBatch(operations, Len(operations))
    IN /\ mgr' = Append(mgr, [manager |-> "execute_batch_operations",
                              document_id |-> document_id,
                              operations |-> operations])
       /\ calls' = Append(calls, [api |-> "docs.batchUpdate", via |-> "to_thread",
                                  requests |-> [k \in 1..Len(built) |-> built[k].request],
                                  origin |-> [k \in 1..Len(built) |-> built[k].intent]])
       /\ pc' = "bm_await_batch"

batch_update_doc ==
    /\ pc = "idle"
    /\ \E a \in BatchUpdateArgs :
        /\ tool' = "batch_update_doc"
        /\ args' = a
        /\ IF BatchUpdateValid(a)
           THEN /\ ExecuteBatchOperations(a.document_id, a.operations)
                /\ UNCHANGED <<result, doc, hf, loc>>
           ELSE ReturnNow(TextResult("Error:"))

\* The single batch returns: (success, message, metadata) goes back to the
\* tool, which renders it.
BmBatchReturn ==
    /\ pc = "bm_await_batch"
    /\ LET r == ApplyBatch(doc, LastCall.requests)
       IN /\ doc' = r.doc
          /\ result' = IF r.ok THEN TextResult("") ELSE TextResult("Error:")
    /\ pc' = "done"
    /\ UNCHANGED <<tool, args, calls, mgr, hf, loc>>

\* The single batch fails without taking effect.
BmCallFail ==
    /\ pc = "bm_await_batch"
    /\ result' = TextResult("Error:")
    /\ pc' = "done"
    /\ UNCHANGED <<tool, args, calls, mgr, doc, hf, loc>>

\* ---------------------------------------------------------- get_doc_content
\* if depth > 5: return ""
DepthLimit == 5

\* A character of the document tree, labelled with the nesting depth (of
\* tables, or of tabs for a tab header) it sits at.
TextRun(ch, depth) == [ch |-> ch, depth |-> depth]

\* The content lists nested from depth k on: empty, a paragraph, a blank
\* paragraph, and a table of one cell holding a content list of depth k + 1.
RECURSIVE Contents(_)
Contents(k) ==
    LET para == [kind |-> "paragraph", text |-> <<TextRun("x", k)>>, tableRows |-> << >>]
        blank == [kind |-> "paragraph", text |-> <<TextRun(" ", k)>>, tableRows |-> << >>]
        tables == IF k < MaxNesting
                  THEN {[kind |-> "table", text |-> << >>, tableRows |-> <<<<c>>>>] :
                            c \in Contents(k + 1)}
                  ELSE {}
    IN {<< >>, <<para>>, <<blank>>}
       \cup {<<t>> : t \in tables} \cup {<<para, t>> : t \in tables}

\* The tabs nested from level l on: with or without a documentTab, with or
\* without one child tab.
RECURSIVE Tabs(_)
Tabs(l) ==
    LET body == <<[kind |-> "paragraph", text |-> <<TextRun("y", l)>>, tableRows |-> << >>]>>
        children == IF l < MaxNesting THEN {<<t>> : t \in Tabs(l + 1)} ELSE {}
    IN {[documentTab |-> dt, childTabs |-> ch] :
            dt \in {None, Some([title |-> <<"T">>, body |-> body])},
            ch \in {<< >>} \cup children}

\* str.strip() of a text: what is left when it is all whitespace is "".
IsBlank(text) == \A i \in 1..Len(text) : text[i].ch = " "

\* extract_text_from_elements(elements, tab_name, depth), element by
\* element from the i-th on; tab_name is None or the (indented) title,
\* given as the level of its indentation.
RECURSIVE ExtractFrom(_, _, _)
RECURSIVE extract_text_from_elements(_, _, _)
ExtractFrom(elements, i, depth) ==
    IF i > Len(elements) THEN << >>
    ELSE LET element == elements[i]
             cell_text(cell) == extract_text_from_elements(cell, None, depth + 1)
             RowText(row) ==
                LET RECURSIVE Cells(_)
                    Cells(c) == IF c > Len(row) THEN << >>
                                ELSE (IF IsBlank(cell_text(row[c])) THEN << >>
                                      ELSE cell_text(row[c])) \o Cells(c + 1)
                IN Cells(1)
             TableText(rows) ==
                LET RECURSIVE Rows(_)
                    Rows(r) == IF r > Len(rows) THEN << >>
                               ELSE RowText(rows[r]) \o Rows(r + 1)
                IN Rows(1)
             line == IF element.kind = "paragraph"
                     THEN (IF IsBlank(element.text) THEN << >> ELSE element.text)
                     ELSE IF element.kind = "table"
                     THEN TableText(element.tableRows)
                     ELSE << >>
         IN line \o ExtractFrom(elements, i + 1, depth)

extract_text_from_elements(elements, tab_name, depth) ==
    IF depth > DepthLimit THEN << >>
    ELSE (IF IsNone(tab_name) THEN << >> ELSE <<TextRun("TAB", Val(tab_name))>>)
         \o ExtractFrom(elements, 1, depth)

\* process_tab_hierarchy(tab, level): the tab's own text, then its child
\* tabs' one level further in.
RECURSIVE process_tab_hierarchy(_, _)
process_tab_hierarchy(tab, level) ==
    LET own == IF IsNone(tab.documentTab) THEN << >>
               ELSE extract_text_from_elements(Val(tab.documentTab).body, Some(level), 0)
        RECURSIVE Children(_)
        Children(c) == IF c > Len(tab.childTabs) THEN << >>
                       ELSE process_tab_hierarchy(tab.childTabs[c], level + 1)
                            \o Children(c + 1)
    IN own \o Children(1)

\* The body text of a native Google Doc: main body, then every tab.
DocBodyText(doc_data) ==
    LET main_content == extract_text_from_elements(doc_data.body, None, 0)
        RECURSIVE TabsText(_)
        TabsText(t) ==
            IF t > Len(doc_data.tabs) THEN << >>
            ELSE LET tab_content == process_tab_hierarchy(doc_data.tabs[t], 0)
                 IN (IF IsBlank(tab_content) THEN << >> ELSE tab_content)
                    \o TabsText(t + 1)
    IN (IF IsBlank(main_content) THEN << >> ELSE main_content) \o TabsText(1)

\* header + body_text
ContentResult(body_text) == [kind |-> "text", prefix |-> "File:", body |-> body_text]

\* the metadata and the document are fetched together
get_doc_content_Gathered ==
    /\ pc = "idle"
    /\ \E d \in DocIds :
        /\ tool' = "get_doc_content"
        /\ args' = [document_id |-> d]
        /\ pc' = "gdc_await_files_get"
        /\ calls' = calls \o <<[api |-> "drive.files.get", via |-> "to_thread", fileId |-> d],
                               [api |-> "docs.get", via |-> "to_thread",
                                includeTabsContent |-> TRUE]>>
        /\ UNCHANGED <<mgr, result, doc, hf, loc>>

get_doc_content ==
    /\ pc = "idle"
    /\ \E d \in DocIds :
        /\ tool' = "get_doc_content"
        /\ args' = [document_id |-> d]
        /\ pc' = "gdc_await_files_get"
        /\ calls' = Append(calls, [api |-> "drive.files.get", via |-> "to_thread", fileId |-> d])
        /\ UNCHANGED <<mgr, result, doc, hf, loc>>

\* files().get returned the metadata: a native document is fetched through
\* the Docs API, anything else is downloaded chunk by chunk.
GdcFilesGetReturn ==
    /\ pc = "gdc_await_files_get"
    /\ \E mime_type \in {<<"application/vnd.google-apps.document">>,
                         <<"application/pdf">>, <<"">>} :
        IF mime_type = <<"application/vnd.google-apps.document">>
        THEN /\ pc' = "gdc_await_docs_get"
             /\ calls' = Append(calls, [api |-> "docs.get", via |-> "to_thread", includeTabsContent |-> TRUE])
             /\ loc' = [chunks |-> 0]
        ELSE /\ pc' = "gdc_await_next_chunk"
             /\ calls' = Append(calls, [api |-> "drive.files.get_media", via |-> "run_in_executor"])
             /\ loc' = [chunks |-> 1]
    /\ UNCHANGED <<tool, args, mgr, result, doc, hf>>

\* documents().get returned the tree: its text is extracted and returned.
GdcDocsGetReturn ==
    /\ pc = "gdc_await_docs_get"
    /\ \E doc_data \in {[body |-> c, tabs |-> << >>] : c \in Contents(0)}
                      \cup {[body |-> << >>, tabs |-> <<t>>] : t \in Tabs(0)} :
        /\ result' = ContentResult(DocBodyText(doc_data))
        /\ loc' = [doc_data |-> doc_data]
    /\ pc' = "done"
    /\ UNCHANGED <<tool, args, calls, mgr, doc, hf>>

\* downloader.next_chunk returned (status, done); the downloaded bytes turn
\* into the office text, the decoded bytes, or the placeholder for
\* undecodable bytes.
GdcNextChunkReturn ==
    /\ pc = "gdc_await_next_chunk"
    /\ \E done \in BOOLEAN :
        IF done
        THEN /\ \E body_text \in {"office", "utf-8", "[Binary"} :
                    result' = ContentResult(<<TextRun(body_text, 0)>>)
             /\ pc' = "done"
             /\ UNCHANGED <<calls, loc>>
        ELSE /\ loc.chunks < MaxChunks
             /\ pc' = "gdc_await_next_chunk"
             /\ calls' = Append(calls, [api |-> "drive.files.get_media", via |-> "run_in_executor"])
             /\ loc' = [chunks |-> loc.chunks + 1]
             /\ UNCHANGED result
    /\ UNCHANGED <<tool, args, mgr, doc, hf>>

\* A remote call of get_doc_content raises: handle_http_errors re-raises.
GdcCallFail ==
    /\ pc \in {"gdc_await_files_get", "gdc_await_docs_get", "gdc_await_next_chunk"}
    /\ pc' = "done"
    /\ result' = Raised
    /\ UNCHANGED <<tool, args, calls, mgr, doc, hf, loc>>

\* ---------------------------------------------------- _parse_reminders_json
\* A Python value of type `type`: a str carries s, an int, bool or float n.
Py(type, s, n) == [type |-> type, s |-> s, n |-> n]

\* A reminder object; an absent key is None.
ReminderDict(method, minutes) == [type |-> "dict", method |-> method, minutes |-> minutes]

\* if len(reminders) > 5 ... reminders[:5]
ReminderLimit == 5

\* minutes < 0 or minutes > 40320
MinutesLimit == 40320

\* The reminders arguments: None, a list, a JSON text (an array, a single
\* object, a truncated array, the empty string), or something else.
\* The lists are of up to MaxReminders of the entries a caller can write,
\* and the lists of ReminderLimit and ReminderLimit + 1 well-formed entries
\* of distinct minutes; JsonArray is json.dumps of a list, as tokens.
ReminderInputs ==
    LET ReminderEntries ==
            {ReminderDict(Some(Py("str", "popup", 0)), Some(Py("int", "", 15))),
             ReminderDict(Some(Py("str", "POPUP", 0)), Some(Py("int", "", 0))),
             ReminderDict(Some(Py("str", "Email", 0)), Some(Py("int", "", MinutesLimit))),
             ReminderDict(Some(Py("str", "sms", 0)), Some(Py("int", "", 10))),
             ReminderDict(Some(Py("str", "popup", 0)), Some(Py("int", "", MinutesLimit + 1))),
             ReminderDict(Some(Py("str", "email", 0)), Some(Py("int", "", 0 - 1))),
             ReminderDict(Some(Py("str", "email", 0)), Some(Py("float", "", 15))),
             ReminderDict(Some(Py("str", "popup", 0)), Some(Py("bool", "", 1))),
             ReminderDict(Some(Py("str", "popup", 0)), None),
             ReminderDict(None, Some(Py("int", "", 15))),
             ReminderDict(Some(Py("int", "", 1)), Some(Py("int", "", 15))),
             ReminderDict(Some(Py("none", "", 0)), Some(Py("int", "", 15))),
             Py("str", "popup", 0)}
        ReminderLists ==
            SeqsUpTo(ReminderEntries, MaxReminders)
            \cup {[i \in 1..n |-> ReminderDict(Some(Py("str", "popup", 0)), Some(Py("int", "", i)))] :
                    n \in {ReminderLimit, ReminderLimit + 1}}
        JsonArray(items) ==
            <<Py("punct", "[", 0)>>
            \o [k \in 1..(IF items = << >> THEN 0 ELSE 2 * Len(items) - 1) |->
                    IF k % 2 = 1 THEN items[(k + 1) \div 2] ELSE Py("punct", ",", 0)]
            \o <<Py("punct", "]", 0)>>
    IN
    {[kind |-> "list", items |-> l, text |-> << >>] : l \in ReminderLists}
    \cup {[kind |-> "str", items |-> << >>, text |-> JsonArray(l)] :
            l \in SeqsUpTo(ReminderEntries, 1)}
    \cup {[kind |-> "str", items |-> << >>, text |-> t] :
            t \in {<< >>,
                   <<ReminderDict(Some(Py("str", "popup", 0)), Some(Py("int", "", 15)))>>,
                   <<Py("punct", "[", 0),
                     ReminderDict(Some(Py("str", "popup", 0)), Some(Py("int", "", 15)))>>}}
    \cup {[kind |-> "other", items |-> << >>, text |-> << >>]}

\* json.loads(text): [ok |-> FALSE] for a JSONDecodeError, else whether the
\* value is a list, and its items.
json_loads(text) ==
    LET IsPunct(k, c) == text[k].type = "punct" /\ text[k].s = c
        n == Len(text)
    IN IF n = 1 /\ text[1].type # "punct"
       THEN [ok |-> TRUE, is_list |-> FALSE, items |-> << >>]
       ELSE IF /\ n >= 2
               /\ IsPunct(1, "[")
               /\ IsPunct(n, "]")
               /\ n % 2 = IF n = 2 THEN 0 ELSE 1
               /\ \A k \in 2..(n - 1) :
                    IF k % 2 = 0 THEN text[k].type # "punct" ELSE IsPunct(k, ",")
       THEN [ok |-> TRUE, is_list |-> TRUE,
             items |-> [i \in 1..((n - 1) \div 2) |-> text[2 * i]]]
       ELSE [ok |-> FALSE, is_list |-> FALSE, items |-> << >>]

\* str.lower()
Lower(s) == CASE s = "POPUP" -> "popup" [] s = "Email" -> "email" [] OTHER -> s

\* The validation loop from the i-th reminder on: the validated reminders,
\* or raised when reminder["method"].lower() meets a value that is no str.
RECURSIVE ValidateFrom(_, _)
ValidateFrom(reminders, i) ==
    IF i > Len(reminders) THEN [raised |-> FALSE, value |-> << >>]
    ELSE LET reminder == reminders[i]
             rest == ValidateFrom(reminders, i + 1)
         IN IF reminder.type # "dict" \/ IsNone(reminder.method) \/ IsNone(reminder.minutes)
            THEN rest
            ELSE IF Val(reminder.method).type # "str"
            THEN [raised |-> TRUE, value |-> << >>]
            ELSE LET method == Lower(Val(reminder.method).s)
                     minutes == Val(reminder.minutes)
                 IN IF method \notin {"popup", "email"}
                    THEN rest
                    ELSE IF \/ minutes.type \notin {"int", "bool"}
                            \/ minutes.n < 0
                            \/ minutes.n > MinutesLimit
                    THEN rest
                    ELSE [raised |-> rest.raised,
                          value |-> IF rest.raised THEN << >>
                                    ELSE <<[method |-> method, minutes |-> minutes]>>
                                         \o rest.value]

_parse_reminders_json(reminders_input) ==
    LET empty == [raised |-> FALSE, value |-> << >>]
        Checked(reminders) ==
            ValidateFrom(IF Len(reminders) > ReminderLimit
                         THEN SubSeq(reminders, 1, ReminderLimit)
                         ELSE reminders, 1)
    IN IF \/ reminders_input.kind = "list" /\ reminders_input.items = << >>
          \/ reminders_input.kind = "str" /\ reminders_input.text = << >>
       THEN empty
       ELSE IF reminders_input.kind = "str"
       THEN LET parsed == json_loads(reminders_input.text)
            IN IF parsed.ok /\ parsed.is_list THEN Checked(parsed.items) ELSE empty
       ELSE IF reminders_input.kind = "list"
       THEN Checked(reminders_input.items)
       ELSE empty

\* -------------------------------------------------------------- modify_event
EventFields ==
    {"summary", "description", "location", "attendees", "start", "end",
     "reminders", "conferenceData"}

\* The six fields _preserve_existing_fields is called with.
PreservedFields == {"summary", "description", "location", "attendees", "start", "end"}

\* A value of an event field: its shape and its content.
V(shape, value) == [shape |-> shape, value |-> value, timeZone |-> None]

EmptyBody == [f \in EventFields |-> None]

\* The events the service can hold, by the fields they have.
ExistingEvents ==
    LET old(f) ==
            CASE f \in {"start", "end"} ->
                    [shape |-> "dateTime", value |-> <<"2020-01-01", "T", "09:00:00">>,
                     timeZone |-> Some("UTC")]
              [] f = "attendees" -> V("emails", <<"old@example.com">>)
              [] f = "reminders" -> V("reminders", [useDefault |-> Some(FALSE)])
              [] f = "conferenceData" -> V("entryPoints", "meet")
              [] OTHER -> V("str", "old")
        having(fields) == [f \in EventFields |-> IF f \in fields THEN Some(old(f)) ELSE None]
    IN {having(EventFields), having({}),
        having({"summary", "start", "end"}),
        having({"description", "location", "attendees", "conferenceData"}),
        [having({"summary", "reminders"}) EXCEPT
            !["reminders"] = Some(V("reminders", [useDefault |-> None]))]}

\* The arguments: the fields in every combination without reminders, and
\* the reminders in every combination without fields.
ModifyEventArgs ==
    LET none == [summary |-> None, start_time |-> None, end_time |-> None,
                 description |-> None, location |-> None, attendees |-> None,
                 timezone |-> None, add_google_meet |-> None, reminders |-> None,
                 use_default_reminders |-> None]
        Opt(S) == {None} \cup {Some(x) : x \in S}
        DateOnly == <<"2023-10-27">>
        DateTime == <<"2023-10-27", "T", "10:00:00">>
    IN {[none EXCEPT !.summary = su, !.start_time = st, !.end_time = en,
                     !.attendees = at, !.timezone = tz, !.add_google_meet = gm] :
            su \in Opt({"new"}), st \in Opt({DateOnly, DateTime}), en \in Opt({DateTime}),
            at \in Opt({<<"new@example.com">>}), tz \in Opt({"Europe/London"}),
            gm \in Opt(BOOLEAN)}
       \cup {[none EXCEPT !.description = de, !.location = lo] :
            de \in Opt({"new"}), lo \in Opt({"new"})}
       \cup {[none EXCEPT !.reminders = re, !.use_default_reminders = ud] :
            re \in Opt(ReminderInputs), ud \in Opt(BOOLEAN)}

\* {"date": t} if "T" not in t else {"dateTime": t}, with timeZone when a
\* timezone is given and the value is a dateTime.
TimeObject(t, timezone) ==
    IF ~Contains(t, "T") THEN V("date", t)
    ELSE [shape |-> "dateTime", value |-> t, timeZone |-> timezone]

\* The event body built from the arguments, before the reminders.
EventBody(a) ==
    [f \in EventFields |->
        CASE f = "summary" /\ ~IsNone(a.summary) -> Some(V("str", Val(a.summary)))
          [] f = "start" /\ ~IsNone(a.start_time) ->
                Some(TimeObject(Val(a.start_time), a.timezone))
          [] f = "end" /\ ~IsNone(a.end_time) ->
                Some(TimeObject(Val(a.end_time), a.timezone))
          [] f = "description" /\ ~IsNone(a.description) ->
                Some(V("str", Val(a.description)))
          [] f = "location" /\ ~IsNone(a.location) -> Some(V("str", Val(a.location)))
          [] f = "attendees" /\ ~IsNone(a.attendees) ->
                Some(V("emails", Val(a.attendees)))
          [] OTHER -> None]

\* field_mappings: the argument each preserved field is mapped to.
NewValue(a, f) ==
    CASE f = "summary" -> a.summary
      [] f = "description" -> a.description
      [] f = "location" -> a.location
      [] f = "attendees" -> a.attendees
      [] f = "start" -> a.start_time
      [] f = "end" -> a.end_time

\* An absent field the event has is copied from it; a field the caller
\* gave is set to the argument as it was passed.
_preserve_existing_fields(event_body, existing_event, a) ==
    [f \in EventFields |->
        IF f \notin PreservedFields THEN event_body[f]
        ELSE IF IsNone(NewValue(a, f)) /\ ~IsNone(existing_event[f])
        THEN existing_event[f]
        ELSE IF ~IsNone(NewValue(a, f))
        THEN Some(V(IF f = "attendees" THEN "list" ELSE "str", Val(NewValue(a, f))))
        ELSE event_body[f]]

\* Handle Google Meet conference data.
WithConferenceData(event_body, existing_event, a) ==
    IF ~IsNone(a.add_google_meet)
    THEN [event_body EXCEPT !["conferenceData"] =
            IF Val(a.add_google_meet) THEN Some(V("createRequest", "hangoutsMeet"))
            ELSE Some(V("empty", ""))]
    ELSE IF ~IsNone(existing_event["conferenceData"])
    THEN [event_body EXCEPT !["conferenceData"] = existing_event["conferenceData"]]
    ELSE event_body

\* raise Exception(message), or an exception that is let through.
MeRaise(event_body) ==
    /\ pc' = "done"
    /\ result' = Raised
    /\ loc' = [event_body |-> event_body, existing_event |-> None, remote_event |-> None,
               get_error |-> None]
    /\ UNCHANGED calls

\* The body is built: without fields the tool raises, else it fetches the
\* existing event on a worker.
MeBuilt(event_body) ==
    IF event_body = EmptyBody
    THEN MeRaise(event_body)
    ELSE /\ pc' = "me_await_events_get"
         /\ calls' = Append(calls, [api |-> "calendar.events.get", via |-> "to_thread"])
         /\ loc' = [event_body |-> event_body, existing_event |-> None,
                    remote_event |-> None, get_error |-> None]
         /\ UNCHANGED result

\* The reminders of the body, useDefault being the argument or what the
\* existing event says.
MeReminders(a, event_body, useDefault) ==
    IF IsNone(a.reminders)
    THEN MeBuilt([event_body EXCEPT !["reminders"] =
                    Some(V("reminders", [useDefault |-> useDefault, overrides |-> None]))])
    ELSE LET validated_reminders == _parse_reminders_json(Val(a.reminders))
         IN IF validated_reminders.raised
            THEN MeRaise(event_body)
            ELSE MeBuilt([event_body EXCEPT !["reminders"] =
                    Some(V("reminders",
                           [useDefault |-> FALSE,
                            overrides |-> IF validated_reminders.value = << >> THEN None
                                          ELSE Some(validated_reminders.value)]))])

modify_event ==
    /\ pc = "idle"
    /\ \E a \in ModifyEventArgs :
        /\ tool' = "modify_event"
        /\ args' = a
        /\ IF IsNone(a.reminders) /\ IsNone(a.use_default_reminders)
           THEN MeBuilt(EventBody(a))
           ELSE IF ~IsNone(a.use_default_reminders)
           THEN MeReminders(a, EventBody(a), Val(a.use_default_reminders))
           ELSE /\ pc' = "me_execute_events_get"
                /\ calls' = Append(calls, [api |-> "calendar.events.get", via |-> "direct"])
                /\ loc' = [event_body |-> EventBody(a), existing_event |-> None,
                           remote_event |-> None, get_error |-> None]
                /\ UNCHANGED result
    /\ UNCHANGED <<mgr, doc, hf>>

\* The get executed in place for useDefault returns.
MeExecuteGetReturn ==
    /\ pc = "me_execute_events_get"
    /\ \E existing_event \in ExistingEvents :
        LET reminders == existing_event["reminders"]
        IN MeReminders(args, loc.event_body,
                       IF IsNone(reminders) \/ IsNone(Val(reminders).value.useDefault)
                       THEN TRUE
                       ELSE Val(Val(reminders).value.useDefault))
    /\ UNCHANGED <<tool, args, mgr, doc, hf>>

\* It raises: except Exception falls back to useDefault = True.
MeExecuteGetFail ==
    /\ pc = "me_execute_events_get"
    /\ MeReminders(args, loc.event_body, TRUE)
    /\ UNCHANGED <<tool, args, mgr, doc, hf>>

\* the status of the error is not looked at
IsNotFound_Never(status) == FALSE

\* if get_error.resp.status == 404
IsNotFound(status) == status = 404

\* The ways the pre-mutation events().get can raise: an HttpError of
\* status 404 or 500, or (0) an exception that is no HttpError.
GetErrors == {404, 500, 0}

\* except HttpError: 404 raises, any other status is logged and the tool
\* proceeds; an exception that is no HttpError is not caught here.
ProceedsAfter(status) == status # 0 /\ ~IsNotFound(status)

\* The update is sent; get_error is the status the pre-update get raised
\* with, if it raised.
IssueUpdate(event_body, existing_event, remote_event, get_error) ==
    /\ pc' = "me_await_events_update"
    /\ calls' = Append(calls, [api |-> "calendar.events.update", via |-> "to_thread",
                               body |-> event_body, conferenceDataVersion |-> 1])
    /\ loc' = [event_body |-> event_body, existing_event |-> existing_event,
               remote_event |-> remote_event, get_error |-> get_error]
    /\ UNCHANGED result

\* The awaited get returns the existing event.
MeGetReturn ==
    /\ pc = "me_await_events_get"
    /\ \E existing_event \in ExistingEvents :
        IssueUpdate(WithConferenceData(
                        _preserve_existing_fields(loc.event_body, existing_event, args),
                        existing_event, args),
                    Some(existing_event), Some(existing_event), None)
    /\ UNCHANGED <<tool, args, mgr, doc, hf>>

\* The awaited get raises, the service holding remote_event: an HttpError
\* of status 404 makes the tool raise, another HttpError lets the update
\* go on with the body as built, anything else (status 0) is let through.
MeGetFail ==
    /\ pc = "me_await_events_get"
    /\ \E status \in GetErrors :
        IF ProceedsAfter(status)
        THEN \E remote_event \in ExistingEvents :
                IssueUpdate(loc.event_body, None, Some(remote_event), Some(status))
        ELSE /\ pc' = "done"
             /\ result' = Raised
             /\ loc' = [loc EXCEPT !.get_error = Some(status)]
             /\ UNCHANGED calls
    /\ UNCHANGED <<tool, args, mgr, doc, hf>>

MeUpdateReturn ==
    /\ pc = "me_await_events_update"
    /\ pc' = "done"
    /\ result' = TextResult("Successfully modified event")
    /\ UNCHANGED <<tool, args, calls, mgr, doc, hf, loc>>

MeUpdateFail ==
    /\ pc = "me_await_events_update"
    /\ pc' = "done"
    /\ result' = Raised
    /\ UNCHANGED <<tool, args, calls, mgr, doc, hf, loc>>

\* -------------------------------------------------------------- delete_event
delete_event ==
    /\ pc = "idle"
    /\ \E calendar_id \in {"primary", "team"} :
        args' = [event_id |-> "e1", calendar_id |-> calendar_id]
    /\ tool' = "delete_event"
    /\ pc' = "de_await_events_get"
    /\ calls' = Append(calls, [api |-> "calendar.events.get", via |-> "to_thread"])
    /\ loc' = [get_error |-> None]
    /\ UNCHANGED <<mgr, result, doc, hf>>

\* Proceed with the deletion.
IssueDelete(get_error) ==
    /\ pc' = "de_await_events_delete"
    /\ calls' = Append(calls, [api |-> "calendar.events.delete", via |-> "to_thread"])
    /\ loc' = [get_error |-> get_error]
    /\ UNCHANGED result

\* The get returns: the event exists.
DeGetReturn ==
    /\ pc = "de_await_events_get"
    /\ IssueDelete(None)
    /\ UNCHANGED <<tool, args, mgr, doc, hf>>

\* The get raises: 404 makes the tool raise, another HttpError is logged
\* and the deletion goes on, anything else is let through.
DeGetFail ==
    /\ pc = "de_await_events_get"
    /\ \E status \in GetErrors :
        IF ProceedsAfter(status)
        THEN IssueDelete(Some(status))
        ELSE /\ pc' = "done"
             /\ result' = Raised
             /\ loc' = [get_error |-> Some(status)]
             /\ UNCHANGED calls
    /\ UNCHANGED <<tool, args, mgr, doc, hf>>

DeDeleteReturn ==
    /\ pc = "de_await_events_delete"
    /\ pc' = "done"
    /\ result' = TextResult("Successfully deleted event")
    /\ UNCHANGED <<tool, args, calls, mgr, doc, hf, loc>>

DeDeleteFail ==
    /\ pc = "de_await_events_delete"
    /\ pc' = "done"
    /\ result' = Raised
    /\ UNCHANGED <<tool, args, calls, mgr, doc, hf, loc>>

\* --------------------------------------------------------------- update_task
TaskFields == {"title", "notes", "status", "due"}

\* only the fields given are taken from the arguments, and nothing of the
\* current task is carried over
UpdateTaskBody_ArgumentsOnly(a, current_task) ==
    [f \in TaskFields |->
        IF ~IsNone(a[f]) THEN a[f]
        ELSE IF f = "title" THEN Some("")
        ELSE IF f = "status" THEN Some("needsAction")
        ELSE None]

\* body = {...}: title and status from the argument or current_task.get
\* with its default, notes and due from the argument or the current task's
\* non-empty value.
UpdateTaskBody(a, current_task) ==
    [f \in TaskFields |->
        IF ~IsNone(a[f]) THEN a[f]
        ELSE IF f = "title"
        THEN (IF IsNone(current_task[f]) THEN Some("") ELSE current_task[f])
        ELSE IF f = "status"
        THEN (IF IsNone(current_task[f]) THEN Some("needsAction") ELSE current_task[f])
        ELSE IF TruthyStr(current_task[f]) THEN current_task[f]
        ELSE None]

\* The arguments: each field left unset, emptied or set.
UpdateTaskArgs ==
    {[title |-> t, notes |-> n, status |-> st, due |-> d] :
        t \in {None, Some("new")}, n \in {None, Some(""), Some("new")},
        st \in {None, Some("new")}, d \in {None, Some("new")}}

update_task ==
    /\ pc = "idle"
    /\ \E a \in UpdateTaskArgs :
        /\ tool' = "update_task"
        /\ args' = a
    /\ pc' = "ut_await_tasks_get"
    /\ calls' = Append(calls, [api |-> "tasks.get", via |-> "to_thread"])
    /\ loc' = [current_task |-> None]
    /\ UNCHANGED <<mgr, result, doc, hf>>

\* tasks().get returned the current task: the body is built and sent.
UtGetReturn ==
    /\ pc = "ut_await_tasks_get"
    /\ \E current_task \in [TaskFields -> {None, Some(""), Some("old")}] :
        /\ calls' = Append(calls, [api |-> "tasks.update", via |-> "to_thread",
                                   body |-> UpdateTaskBody(args, current_task)])
        /\ loc' = [current_task |-> Some(current_task)]
    /\ pc' = "ut_await_tasks_update"
    /\ UNCHANGED <<tool, args, mgr, result, doc, hf>>

UtUpdateReturn ==
    /\ pc = "ut_await_tasks_update"
    /\ pc' = "done"
    /\ result' = TextResult("Task Updated")
    /\ UNCHANGED <<tool, args, calls, mgr, doc, hf, loc>>

\* The awaited call raises: the except clauses raise Exception(message).
UtCallFail ==
    /\ pc \in {"ut_await_tasks_get", "ut_await_tasks_update"}
    /\ pc' = "done"
    /\ result' = Raised
    /\ UNCHANGED <<tool, args, calls, mgr, doc, hf, loc>>

\* --------------------------------------------------- remote call outcomes
\* The awaited batchUpdate returns: the service applied the batch, or
\* rejected it and handle_http_errors raises.
BatchUpdateReturn ==
    /\ pc = "await_batchUpdate"
    /\ LET r == IF validate_document_id(args.document_id)
                THEN ApplyBatch(doc, LastCall.requests)
                ELSE Reject(doc, OtherError)
       IN /\ doc' = r.doc
          /\ result' = IF r.ok THEN TextResult("") ELSE Raised
    /\ pc' = "done"
    /\ UNCHANGED <<tool, args, calls, mgr, hf, loc>>

\* The awaited batchUpdate fails in transport; nothing was applied.
BatchUpdateFail ==
    /\ pc = "await_batchUpdate"
    /\ result' = Raised
    /\ pc' = "done"
    /\ UNCHANGED <<tool, args, calls, mgr, doc, hf, loc>>

Next ==
    \/ modify_doc_text
    \/ insert_doc_elements
    \/ insert_doc_image
    \/ FilesGetReturn
    \/ FilesGetFail
    \/ create_table_with_data
    \/ TmInsertTableReturn
    \/ TmGetReturn
    \/ TmInsertTextReturn
    \/ TmFormatReturn
    \/ TmCallFail
    \/ TmInsertTextBoundary
    \/ update_doc_headers_footers
    \/ HfGetReturn
    \/ HfCreateReturn
    \/ HfReplaceReturn
    \/ HfCallFail
    \/ batch_update_doc
    \/ BmBatchReturn
    \/ BmCallFail
    \/ BatchUpdateReturn
    \/ BatchUpdateFail
    \/ get_doc_content
    \/ GdcFilesGetReturn
    \/ GdcDocsGetReturn
    \/ GdcNextChunkReturn
    \/ GdcCallFail
    \/ modify_event
    \/ MeExecuteGetReturn
    \/ MeExecuteGetFail
    \/ MeGetReturn
    \/ MeGetFail
    \/ MeUpdateReturn
    \/ MeUpdateFail
    \/ delete_event
    \/ DeGetReturn
    \/ DeGetFail
    \/ DeDeleteReturn
    \/ DeDeleteFail
    \/ update_task
    \/ UtGetReturn
    \/ UtUpdateReturn
    \/ UtCallFail

Spec == Init /\ [][Next]_vars

\* ------------------------------ two update_task invocations on one task
\* In TasksSpec two invocations of update_task run side by side against
\* the same remote task, the event loop resuming either at each await.
\* pc, args, result and loc hold one entry per invocation, and `doc` holds
\* the remote resource: the task, as the service stores it.
Invocations == {"first", "second"}

TasksInit ==
    /\ pc = [i \in Invocations |-> "idle"]
    /\ tool = "update_task"
    /\ args = [i \in Invocations |-> << >>]
    /\ calls = << >>
    /\ mgr = << >>
    /\ result = [i \in Invocations |-> [kind |-> "none", prefix |-> ""]]
    /\ doc \in [TaskFields -> {None, Some("old")}]
    /\ hf = << >>
    /\ loc = [i \in Invocations |-> [current_task |-> None, body |-> None]]

\* Invocation i is called: it offloads tasks().get and awaits it.
UpdateTaskCalled(i) ==
    /\ pc[i] = "idle"
    /\ \E a \in UpdateTaskArgs : args' = [args EXCEPT ![i] = a]
    /\ pc' = [pc EXCEPT ![i] = "ut_await_tasks_get"]
    /\ calls' = Append(calls, [api |-> "tasks.get", via |-> "to_thread", by |-> i])
    /\ UNCHANGED <<tool, mgr, result, doc, hf, loc>>

\* Its get returns the task as stored now: the body is built from it and
\* the update is offloaded.
TaskGetReturns(i) ==
    /\ pc[i] = "ut_await_tasks_get"
    /\ LET body == UpdateTaskBody(args[i], doc)
       IN /\ calls' = Append(calls, [api |-> "tasks.update", via |-> "to_thread",
                                     body |-> body, by |-> i])
          /\ loc' = [loc EXCEPT ![i] = [current_task |-> Some(doc), body |-> Some(body)]]
    /\ pc' = [pc EXCEPT ![i] = "ut_await_tasks_update"]
    /\ UNCHANGED <<tool, args, mgr, result, doc, hf>>

\* Its update is applied: tasks().update stores the body it was sent, no
\* etag being sent with it.
TaskUpdateReturns(i) ==
    /\ pc[i] = "ut_await_tasks_update"
    /\ doc' = Val(loc[i].body)
    /\ pc' = [pc EXCEPT ![i] = "done"]
    /\ result' = [result EXCEPT ![i] = TextResult("Task Updated")]
    /\ UNCHANGED <<tool, args, calls, mgr, hf, loc>>

\* An awaited call of invocation i raises, nothing being stored.
TaskCallFails(i) ==
    /\ pc[i] \in {"ut_await_tasks_get", "ut_await_tasks_update"}
    /\ pc' = [pc EXCEPT ![i] = "done"]
    /\ result' = [result EXCEPT ![i] = Raised]
    /\ UNCHANGED <<tool, args, calls, mgr, doc, hf, loc>>

TasksNext ==
    \/ \E i \in Invocations : UpdateTaskCalled(i)
    \/ \E i \in Invocations : TaskGetReturns(i)
    \/ \E i \in Invocations : TaskUpdateReturns(i)
    \/ \E i \in Invocations : TaskCallFails(i)

TasksSpec == TasksInit /\ [][TasksNext]_vars


\* ------------------------------------------------------------------ claims
BatchUpdates == {i \in 1..Len(calls) : calls[i].api = "docs.batchUpdate"}

InsertionOps == {"insertText", "insertTable", "insertPageBreak", "insertInlineImage"}

IsPureInsertion(a) == ~IsNone(a.text) /\ ~IsReplacement(a.start_index, a.end_index)

\* The index the caller asked to insert at, for the three insertion tools.
RequestedZero ==
    \/ tool = "modify_doc_text" /\ IsPureInsertion(args) /\ args.start_index = 0
    \/ tool \in {"insert_doc_elements", "insert_doc_image"} /\ args.index = 0

\* C1: no insertion request (InsertText, InsertTable, InsertPageBreak,
\* InsertImage) transmitted by modify_doc_text, insert_doc_elements or
\* insert_doc_image addresses index 0, and when the requested index is 0
\* every insertion request of the transmitted batch addresses index 1.
C1_InsertionRedirectedToOne ==
    tool \in {"modify_doc_text", "insert_doc_elements", "insert_doc_image"} =>
        \A i \in BatchUpdates : \A j \in 1..Len(calls[i].requests) :
            LET r == calls[i].requests[j]
            IN r.op \in InsertionOps =>
                 /\ r.index # 0
                 /\ RequestedZero => r.index = 1

C1_Witness ==
    /\ tool = "modify_doc_text"
    /\ RequestedZero
    /\ BatchUpdates # {}
    /\ calls[1].requests[1].op = "insertText"
    /\ pc = "done"
    /\ result = TextResult("")

\* C2: no batch of modify_doc_text holds a DeleteRange starting at 0; a
\* replacement requested with start_index = 0 and end_index > 0 is sent as
\* InsertText(1, text) followed by DeleteRange(1 + len(text),
\* end_index + len(text)).
C2_NoDeleteAtZero ==
    tool = "modify_doc_text" =>
        \A i \in BatchUpdates :
            LET reqs == calls[i].requests
            IN /\ \A j \in 1..Len(reqs) :
                    reqs[j].op = "deleteContentRange" => reqs[j].startIndex # 0
               /\ (/\ ~IsNone(args.text)
                   /\ args.start_index = 0
                   /\ IsReplacement(args.start_index, args.end_index)) =>
                    /\ Len(reqs) >= 2
                    /\ reqs[1] = [op |-> "insertText", index |-> 1, text |-> Val(args.text)]
                    /\ reqs[2] = [op |-> "deleteContentRange",
                                  startIndex |-> 1 + Len(Val(args.text)),
                                  endIndex |-> Val(args.end_index) + Len(Val(args.text))]

C2_Witness ==
    /\ tool = "modify_doc_text"
    /\ ~IsNone(args.text)
    /\ args.start_index = 0
    /\ IsReplacement(args.start_index, args.end_index)
    /\ BatchUpdates # {}
    /\ pc = "done"
    /\ result = TextResult("")


\* The result of attempt n of create_and_populate_table, None while it runs.
Failed(n) == ~IsNone(mgr[n].returned) /\ ~Val(mgr[n].returned).success

FailedAtBoundary(n) ==
    Failed(n) /\ Contains(Val(mgr[n].returned).message, "must be less than the end index")

\* C3: create_and_populate_table is attempted a second time if and only if
\* the first attempt returned failure with a message containing 'must be
\* less than the end index'; the second attempt uses index - 1 and the
\* document, table_data and bold_headers of the first.
C3_RetryIffBoundaryError ==
    (tool = "create_table_with_data" /\ Len(mgr) >= 1) =>
        /\ mgr[1].index = args.index
        /\ mgr[1].table_data = args.table_data
        /\ mgr[1].document_id = args.document_id
        /\ mgr[1].bold_headers = args.bold_headers
        /\ Len(mgr) >= 2 <=> FailedAtBoundary(1)
        /\ Len(mgr) >= 2 =>
             /\ mgr[2].index = args.index - 1
             /\ mgr[2].table_data = args.table_data
             /\ mgr[2].document_id = args.document_id
             /\ mgr[2].bold_headers = args.bold_headers

C3_Witness ==
    /\ tool = "create_table_with_data"
    /\ Len(mgr) = 2
    /\ FailedAtBoundary(1)
    /\ args.index = 3
    /\ pc = "done"
    /\ result.prefix = "SUCCESS:"

\* C4: one invocation of create_table_with_data makes at most two attempts
\* of create_and_populate_table; when the retried attempt fails too, even
\* with the boundary message, the tool ends with an 'ERROR:' text result.
C4_AtMostTwoAttempts ==
    tool = "create_table_with_data" =>
        /\ Len(mgr) <= 2
        /\ (Len(mgr) = 2 /\ Failed(2)) =>
             /\ pc = "done"
             /\ result = TextResult("ERROR:")

C4_Witness ==
    /\ tool = "create_table_with_data"
    /\ Len(mgr) = 2
    /\ FailedAtBoundary(2)
    /\ pc = "done"
    /\ result = TextResult("ERROR:")

\* A validation check of the running tool fails on its arguments.
SomeCheckFails ==
    CASE tool = "modify_doc_text" ->
            \/ ~validate_document_id(args.document_id)
            \/ IsNone(args.text) /\ ~HasFormatting(args.fmt)
            \/ /\ HasFormatting(args.fmt)
               /\ \/ ~validate_text_formatting_params(
                          args.fmt.bold, args.fmt.italic, args.fmt.underline,
                          args.fmt.font_size, args.fmt.font_family)
                  \/ IsNone(args.end_index)
                  \/ ~validate_index_range(args.start_index, args.end_index)
      [] tool = "update_doc_headers_footers" ->
            \/ ~validate_document_id(args.document_id)
            \/ ~validate_header_footer_params(args.section_type, args.header_footer_type)
            \/ ~validate_text_content(args.content)
      [] tool = "batch_update_doc" ->
            \/ ~validate_document_id(args.document_id)
            \/ ~validate_batch_operations(args.operations)
      [] tool = "create_table_with_data" ->
            \/ ~validate_document_id(args.document_id)
            \/ ~validate_table_data(args.table_data)
            \/ ~validate_index(args.index)
      [] OTHER -> FALSE

\* C5: in modify_doc_text, update_doc_headers_footers, batch_update_doc and
\* create_table_with_data, whenever a validation check fails the tool
\* returns a text result prefixed 'Error:' or 'ERROR:' without raising, and
\* no remote call and no manager invocation has been issued.
C5_ValidationBeforeAnyCall ==
    SomeCheckFails =>
        /\ pc = "done"
        /\ result \in {TextResult("Error:"), TextResult("ERROR:")}
        /\ calls = << >>
        /\ mgr = << >>

C5_Witness ==
    /\ tool = "modify_doc_text"
    /\ validate_document_id(args.document_id)
    /\ HasFormatting(args.fmt)
    /\ ~IsNone(args.end_index)
    /\ ~validate_index_range(args.start_index, args.end_index)
    /\ pc = "done"
    /\ result = TextResult("Error:")

\* C6: batch_update_doc called with an empty operations list returns an
\* 'Error:' text result; the batch manager is never invoked and no remote
\* call is issued.
C6_EmptyBatchRejected ==
    (tool = "batch_update_doc" /\ args.operations = << >>) =>
        /\ pc = "done"
        /\ result = TextResult("Error:")
        /\ mgr = << >>
        /\ calls = << >>

C6_Witness ==
    /\ tool = "batch_update_doc"
    /\ args.operations = << >>
    /\ validate_document_id(args.document_id)
    /\ pc = "done"
    /\ result = TextResult("Error:")

ValidBatch ==
    /\ tool = "batch_update_doc"
    /\ validate_document_id(args.document_id)
    /\ validate_batch_operations(args.operations)

\* The requests an intent of each type is translated to.
RequestOps ==
    [insert_text |-> <<"insertText">>,
     delete_text |-> <<"deleteContentRange">>,
     replace_text |-> <<"deleteContentRange", "insertText">>,
     format_text |-> <<"updateTextStyle">>,
     insert_table |-> <<"insertTable">>,
     insert_page_break |-> <<"insertPageBreak">>]

\* The positions in the batch of the requests made from intent i.
RequestsOf(call, i) == {k \in 1..Len(call.origin) : call.origin[k] = i}

\* C7: for every valid non-empty list of edit intents batch_update_doc
\* issues exactly one batch_update remote call, in which the requests of
\* intent i all precede the requests of intent j whenever i < j.
C7_OneBatchInIntentOrder ==
    ValidBatch =>
        /\ Len(calls) = 1
        /\ calls[1].api = "docs.batchUpdate"
        /\ Len(mgr) = 1
        /\ \A j, k \in 1..Len(calls[1].origin) :
              j < k => calls[1].origin[j] <= calls[1].origin[k]
        /\ \A i \in 1..Len(args.operations) :
              LET ks == RequestsOf(calls[1], i)
                  ops == RequestOps[args.operations[i].type]
              IN /\ Cardinality(ks) = Len(ops)
                 /\ \A k \in ks :
                       calls[1].requests[k].op =
                           ops[1 + Cardinality({m \in ks : m < k})]

C7_Witness ==
    /\ ValidBatch
    /\ Len(args.operations) = 2
    /\ args.operations[1].type = "replace_text"
    /\ args.operations[2].type = "insert_text"
    /\ Len(calls[1].requests) = 3
    /\ pc = "done"
    /\ result = TextResult("")

\* The offsets a request carries are those of the intent it was made from.
SameOffsets(r, intent) ==
    CASE r.op \in {"insertText", "insertTable", "insertPageBreak"} ->
            r.index = IF intent.type = "replace_text" THEN intent.start_index
                      ELSE intent.index
      [] r.op \in {"deleteContentRange", "updateTextStyle"} ->
            r.startIndex = intent.start_index /\ r.endIndex = intent.end_index

\* C8: the batch manager transmits the offsets of every intent as the
\* caller supplied them, with no adjustment for the insertions and
\* deletions of earlier intents of the same list.
C8_OffsetsAsSupplied ==
    ValidBatch =>
        \A i \in 1..Len(calls) : \A k \in 1..Len(calls[i].requests) :
            SameOffsets(calls[i].requests[k], args.operations[calls[i].origin[k]])

\* An earlier intent inserts text at or before the offset of a later one.
C8_Witness ==
    /\ ValidBatch
    /\ Len(args.operations) = 2
    /\ args.operations[1] = [type |-> "insert_text", index |-> 1, text |-> <<"a", "b">>]
    /\ args.operations[2] = [type |-> "insert_text", index |-> 2, text |-> <<"b">>]
    /\ Len(calls) = 1
    /\ pc = "done"
    /\ result = TextResult("")

CreateCalls ==
    {i \in BatchUpdates :
        \E k \in 1..Len(calls[i].requests) :
            calls[i].requests[k].op \in {"createHeader", "createFooter"}}

ContentCalls ==
    {i \in BatchUpdates :
        \E k \in 1..Len(calls[i].requests) : calls[i].requests[k].op = "insertText"}

\* C9: in a header/footer update, when the identifier map has no
\* header/footer of the requested variant exactly one create call is issued
\* and it precedes the content insertion; when one exists no create call is
\* issued and only the content replacement is sent; the invocation ends in
\* the Updated state or in a reported error.
C9_CreateOnlyWhenAbsent ==
    (tool = "update_doc_headers_footers" /\ mgr # << >>) =>
        /\ \A c \in CreateCalls : \A k \in ContentCalls : c < k
        /\ loc.state # "Unknown" =>
             IF IsNone(loc.found)
             THEN Cardinality(CreateCalls) = 1
             ELSE /\ CreateCalls = {}
                  /\ BatchUpdates = ContentCalls
                  /\ Cardinality(ContentCalls) = 1
        /\ pc = "done" =>
             \/ loc.state = "Updated" /\ result = TextResult("")
             \/ result = TextResult("Error:")

C9_Witness ==
    /\ tool = "update_doc_headers_footers"
    /\ mgr # << >>
    /\ pc = "done"
    /\ loc.state = "Updated"
    /\ IsNone(loc.found)
    /\ Cardinality(CreateCalls) = 1
    /\ Cardinality(ContentCalls) = 1
    /\ hf[HFKey(args)] = Some(args.content)

\* The table made by the attempt that succeeded.
NewTable == mgr[Len(mgr)].index + 1

\* C10: after create_table_with_data succeeds for a rectangular grid, every
\* cell (r, c) of the new table contains exactly table_data[r][c], an empty
\* string leaving the cell empty, whichever order the cells were filled in.
C10_CellsHoldTheirValues ==
    (tool = "create_table_with_data" /\ pc = "done" /\ result.prefix = "SUCCESS:") =>
        /\ IsTableAt(doc, NewTable)
        /\ TableRowCount(doc, NewTable) = Len(args.table_data)
        /\ TableColumnCount(doc, NewTable) = Len(args.table_data[1])
        /\ \A r \in 0..(Len(args.table_data) - 1) :
           \A c \in 0..(Len(args.table_data[1]) - 1) :
              /\ HasCell(doc, NewTable, r, c)
              /\ CellText(doc, NewTable, r, c) = args.table_data[r + 1][c + 1]

C10_Witness ==
    /\ tool = "create_table_with_data"
    /\ pc = "done"
    /\ result.prefix = "SUCCESS:"
    /\ loc.mode = "recompute"
    /\ Len(args.table_data) = 2
    /\ Len(args.table_data[1]) = 2
    /\ Cardinality(NonEmptyCells(args.table_data)) = 3
    /\ Len(mgr) = 1

\* ------------------------------------------------------------------- C11
\* An attempt of create_and_populate_table failed at a cell's InsertText,
\* its InsertTable having been applied.
CellInsertFailed(n) ==
    /\ Failed(n)
    /\ Val(mgr[n].returned).at = "tm_await_insert_text"

DeleteIssued ==
    \E i \in BatchUpdates : \E k \in 1..Len(calls[i].requests) :
        calls[i].requests[k].op = "deleteContentRange"

\* C11: when a cell text insertion fails after the InsertTable of
\* create_and_populate_table was applied, create_table_with_data ends with
\* an ERROR result, the inserted table is still in the document and no
\* delete request was issued.
C11_CellFailureEndsInError ==
    (/\ tool = "create_table_with_data"
     /\ pc = "done"
     /\ \E n \in 1..Len(mgr) : CellInsertFailed(n)) =>
        /\ result.prefix = "ERROR:"
        /\ \E k \in 1..Len(doc) : doc[k] = "tbl"
        /\ ~DeleteIssued

\* ------------------------------------------------------------------- C12
\* C12: the text get_doc_content returns for a native document holds
\* nothing from nesting depth above 5, neither of tables inside tables nor
\* of child tabs inside tabs.
C12_NothingBelowDepthFive ==
    (tool = "get_doc_content" /\ pc = "done" /\ result.prefix = "File:") =>
        \A i \in 1..Len(result.body) : result.body[i].depth <= DepthLimit

\* ------------------------------------------------------------------- C13
\* C13: every remote call a tool makes runs on a worker (asyncio.to_thread
\* or an executor), never on the thread of the cooperative scheduler, so
\* that other invocations can step while it is in flight.
C13_EveryCallOffloaded ==
    \A i \in 1..Len(calls) : calls[i].via \in {"to_thread", "run_in_executor"}

\* ------------------------------------------------------------------- C16
UpdateCalls == {i \in 1..Len(calls) : calls[i].api = "calendar.events.update"}

\* C16: when modify_event reaches events.update, the body carries the
\* existing event's value for each of summary, description, location,
\* attendees, start and end that the caller did not provide and the
\* existing event has.
C16_UnprovidedFieldsKept ==
    (tool = "modify_event" /\ UpdateCalls # {}) =>
        \A i \in UpdateCalls : \A f \in PreservedFields :
            (IsNone(NewValue(args, f)) /\ ~IsNone(Val(loc.remote_event)[f])) =>
                calls[i].body[f] = Val(loc.remote_event)[f]

\* ------------------------------------------------------------------- C17
OnlyGoogleMeet(a) ==
    /\ ~IsNone(a.add_google_meet)
    /\ EventBody(a) = EmptyBody
    /\ IsNone(a.reminders)
    /\ IsNone(a.use_default_reminders)

\* C17: modify_event with add_google_meet = True sends an update whose
\* conferenceData is a createRequest, with False one whose conferenceData
\* is cleared, whatever the other parameters, also when add_google_meet is
\* the only field supplied.
C17_GoogleMeetApplied ==
    (tool = "modify_event" /\ ~IsNone(args.add_google_meet)) =>
        /\ OnlyGoogleMeet(args) => pc # "done" \/ UpdateCalls # {}
        /\ \A i \in UpdateCalls :
            calls[i].body["conferenceData"] =
                Some(V(IF Val(args.add_google_meet) THEN "createRequest" ELSE "empty",
                       IF Val(args.add_google_meet) THEN "hangoutsMeet" ELSE ""))

\* ------------------------------------------------------------------- C19
\* The items of a reminders argument: of the list, or of the JSON array.
ItemsOf(reminders_input) ==
    IF reminders_input.kind = "list" THEN reminders_input.items
    ELSE IF reminders_input.kind = "str"
    THEN LET parsed == json_loads(reminders_input.text)
         IN IF parsed.ok /\ parsed.is_list THEN parsed.items ELSE << >>
    ELSE << >>

\* An entry that passes the checks: a popup or email method in any case
\* and integer minutes within 0..40320.
PassesChecks(reminder) ==
    /\ reminder.type = "dict"
    /\ ~IsNone(reminder.method)
    /\ ~IsNone(reminder.minutes)
    /\ Val(reminder.method).type = "str"
    /\ Lower(Val(reminder.method).s) \in {"popup", "email"}
    /\ Val(reminder.minutes).type \in {"int", "bool"}
    /\ Val(reminder.minutes).n >= 0
    /\ Val(reminder.minutes).n <= MinutesLimit

\* The first five items, those failing the checks left out.
ExpectedReminders(reminders_input) ==
    LET items == ItemsOf(reminders_input)
        first == IF Len(items) > ReminderLimit THEN SubSeq(items, 1, ReminderLimit)
                 ELSE items
        kept == SelectSeq(first, PassesChecks)
    IN [i \in 1..Len(kept) |->
            [method |-> Lower(Val(kept[i].method).s), minutes |-> Val(kept[i].minutes)]]

\* C19: _parse_reminders_json never raises; it returns, in input order,
\* the entries among the first five with a popup or email method
\* (lower-cased) and integer minutes in 0..40320, skipping the others, and
\* the empty list for an input that is no list or does not parse.
C19_RemindersValidated ==
    (tool = "modify_event" /\ ~IsNone(args.reminders) /\ pc # "me_execute_events_get") =>
        /\ ~IsNone(loc.event_body["reminders"])
        /\ LET overrides == Val(loc.event_body["reminders"]).value.overrides
               expected == ExpectedReminders(Val(args.reminders))
           IN /\ Len(expected) <= ReminderLimit
              /\ overrides = IF expected = << >> THEN None ELSE Some(expected)

\* ------------------------------------------------------------------- C18
\* C18: update_task issues a get of the task and then, only when the get
\* returned, one update; its body carries the caller's value for each of
\* title, notes, status and due the caller set, and for each the caller
\* left unset the value the get returned (an absent title or status as ""
\* or "needsAction", absent or empty notes and due left out).
C18_UnsetFieldsFromGet ==
    tool = "update_task" =>
        /\ Len(calls) <= 2
        /\ calls[1].api = "tasks.get"
        /\ Len(calls) = 2 =>
            /\ calls[2].api = "tasks.update"
            /\ ~IsNone(loc.current_task)
            /\ \A f \in TaskFields :
                LET sent == calls[2].body[f]
                    got == Val(loc.current_task)[f]
                IN /\ ~IsNone(args[f]) => sent = args[f]
                   /\ (IsNone(args[f]) /\ TruthyStr(got)) => sent = got
                   /\ (IsNone(args[f]) /\ ~TruthyStr(got)) =>
                        sent \in {None, Some(""), Some("needsAction")}

C18_Witness ==
    /\ tool = "update_task"
    /\ pc = "done"
    /\ result = TextResult("Task Updated")
    /\ IsNone(args.title) /\ IsNone(args.notes) /\ ~IsNone(args.status)
    /\ Val(loc.current_task)["title"] = Some("old")
    /\ Val(loc.current_task)["notes"] = Some("old")
    /\ calls[2].body["notes"] = Some("old")

\* ------------------------------------------------------------------- C14
\* The steps at which the invocation has a remote call in flight.
InFlightStates ==
    {"await_batchUpdate", "await_files_get", "tm_await_insert_table", "tm_await_get",
     "tm_await_insert_text", "tm_await_format", "hf_await_get", "hf_await_create",
     "hf_await_replace", "bm_await_batch", "gdc_await_files_get", "gdc_await_docs_get",
     "gdc_await_next_chunk", "me_execute_events_get", "me_await_events_get",
     "me_await_events_update", "de_await_events_get", "de_await_events_delete",
     "ut_await_tasks_get", "ut_await_tasks_update"}

\* C14: an invocation has at most one remote call in flight: a step issues
\* at most one call, the invocation then waits for it, and the next call
\* is issued only by the step that takes the reply or the failure of the
\* one before.
C14_OneCallInFlight ==
    [][/\ Len(calls') <= Len(calls) + 1
       /\ Len(calls') = Len(calls) + 1 =>
            /\ pc' \in InFlightStates
            /\ pc = "idle" \/ pc \in InFlightStates
       /\ (pc \in InFlightStates /\ pc' \in InFlightStates) => Len(calls') = Len(calls) + 1]_vars

C14_Witness ==
    /\ tool = "get_doc_content"
    /\ pc = "gdc_await_docs_get"
    /\ Len(calls) = 2
    /\ calls[1].api = "drive.files.get"
    /\ calls[2].api = "docs.get"

\* ------------------------------------------------------------------- C15
FormatRangeChecked(a) ==
    /\ validate_document_id(a.document_id)
    /\ HasFormatting(a.fmt)
    /\ validate_text_formatting_params(a.fmt.bold, a.fmt.italic, a.fmt.underline,
                                       a.fmt.font_size, a.fmt.font_family)
    /\ ~IsNone(a.end_index)

C20_TableIndexRedirected ==
    (tool = "create_table_with_data" /\ args.index = 0) =>
        \A i \in BatchUpdates : \A k \in 1..Len(calls[i].requests) :
            calls[i].requests[k].op = "insertTable" => calls[i].requests[k].index = 1

\* ------------------------------------------------------------------- C21
\* The document d with the tokens at offsets [s, e) replaced by text.
Replaced(d, s, e, text) == SubSeq(d, 1, s) \o text \o SubSeq(d, e + 1, Len(d))

IsReplacementCall ==
    /\ tool = "modify_doc_text"
    /\ ~IsNone(args.text)
    /\ IsReplacement(args.start_index, args.end_index)

C22_FormatCoversNewText ==
    (/\ tool = "modify_doc_text"
     /\ ~IsNone(args.text)
     /\ Val(args.text) # << >>
     /\ HasFormatting(args.fmt)) =>
        \A i \in BatchUpdates :
            LET reqs == calls[i].requests
                n == Len(reqs)
                s == IF args.start_index = 0 THEN 1 ELSE args.start_index
            IN /\ n >= 2
               /\ \A j \in 1..(n - 1) : reqs[j].op # "updateTextStyle"
               /\ reqs[n].op = "updateTextStyle"
               /\ reqs[n].startIndex = s
               /\ reqs[n].endIndex = s + Len(Val(args.text))

\* ------------------------------------------------------------------- C23
\* The calls of a create-and-populate run, by what they carry.
IsInsertTable(i) ==
    calls[i].api = "docs.batchUpdate" /\ calls[i].requests[1].op = "insertTable"

IsGetDocument(i) == calls[i].api = "docs.get"

IsCellInsert(i) ==
    calls[i].api = "docs.batchUpdate" /\ calls[i].requests[1].op = "insertText"

\* C23: in a create-and-populate run every cell InsertText comes after an
\* InsertTable that was directly followed by a get_document, and no
\* InsertText sent before it since the last get_document targeted a
\* position at or before its own.
C23_OffsetsValidWhenSent ==
    tool = "create_table_with_data" =>
        \A i \in 1..Len(calls) :
            IsCellInsert(i) =>
                /\ \E t \in 1..(i - 2) :
                      /\ IsInsertTable(t)
                      /\ IsGetDocument(t + 1)
                      /\ \A k \in (t + 1)..(i - 1) : ~IsInsertTable(k)
                /\ \A j \in 1..(i - 1) :
                      (/\ IsCellInsert(j)
                       /\ calls[j].requests[1].index <= calls[i].requests[1].index)
                      => \E k \in (j + 1)..(i - 1) : IsGetDocument(k)

C23_Witness ==
    /\ tool = "create_table_with_data"
    /\ pc = "done"
    /\ result.prefix = "SUCCESS:"
    /\ loc.mode = "reverse"
    /\ Cardinality({i \in 1..Len(calls) : IsCellInsert(i)}) = 3
    /\ Cardinality({i \in 1..Len(calls) : IsGetDocument(i)}) = 1

\* ------------------------------------------------------------------- C24
\* The update or delete calls of the two calendar tools.
MutationCalls ==
    {i \in 1..Len(calls) :
        calls[i].api \in {"calendar.events.update", "calendar.events.delete"}}

\* C24: in delete_event and modify_event the existing event is fetched
\* before the mutation; when that fetch failed with HTTP 404 the tool has
\* raised and no update / delete call was issued; when it failed with
\* another HTTP error the mutation was issued all the same.
C24_FetchDecidesMutation ==
    tool \in {"delete_event", "modify_event"} =>
        /\ \A i \in MutationCalls :
              \E j \in 1..(i - 1) :
                  calls[j].api = "calendar.events.get" /\ calls[j].via = "to_thread"
        /\ loc.get_error = Some(404) =>
              pc = "done" /\ result = Raised /\ MutationCalls = {}
        /\ (~IsNone(loc.get_error) /\ Val(loc.get_error) \notin {404, 0}) =>
              MutationCalls # {}

C24_Witness ==
    /\ tool = "delete_event"
    /\ loc.get_error = Some(500)
    /\ pc = "done"
    /\ result = TextResult("Successfully deleted event")

\* ------------------------------------------------------------------- C25
\* C25: every DeleteRange modify_doc_text transmits has 1 <= start < end.
C25_DeleteRangeWellFormed ==
    tool = "modify_doc_text" =>
        \A i \in BatchUpdates : \A j \in 1..Len(calls[i].requests) :
            LET r == calls[i].requests[j]
            IN r.op = "deleteContentRange" =>
                 1 <= r.startIndex /\ r.startIndex < r.endIndex

\* ------------------------------------------------------------------- C26
\* C26: every FormatText modify_doc_text transmits has start >= 1 and
\* end > start, with or without a text change in the same call.
C26_FormatRangeWellFormed ==
    tool = "modify_doc_text" =>
        \A i \in BatchUpdates : \A j \in 1..Len(calls[i].requests) :
            LET r == calls[i].requests[j]
            IN r.op = "updateTextStyle" =>
                 r.startIndex >= 1 /\ r.endIndex > r.startIndex

C26_Witness ==
    /\ tool = "modify_doc_text"
    /\ IsNone(args.text)
    /\ args.start_index = 0
    /\ args.end_index = Some(1)
    /\ pc = "done"
    /\ result = TextResult("")
    /\ calls[1].requests[1].op = "updateTextStyle"
    /\ calls[1].requests[1].startIndex = 1
    /\ calls[1].requests[1].endIndex = 2

\* ------------------------------------------------------------------- C27
\* C27: a SUCCESS result of create_table_with_data reports the index that
\* was passed to the attempt that succeeded, and the row and column counts
\* of table_data.
C27_ReportsAttemptIndex ==
    (tool = "create_table_with_data" /\ pc = "done" /\ result.prefix = "SUCCESS:") =>
        /\ result.index = mgr[Len(mgr)].index
        /\ result.rows = Len(args.table_data)
        /\ result.columns = Len(args.table_data[1])

\* ------------------------------------------------------------------- C28
\* The InsertTable calls of the invocation the service applied: each is in
\* the document as one "tbl" token.
TablesInDocument == Cardinality({k \in 1..Len(doc) : doc[k] = "tbl"})

\* C28: one invocation of create_table_with_data leaves at most one new
\* table in the document, and starts no second attempt after an attempt
\* whose InsertTable was applied.
C28_AtMostOneTable ==
    tool = "create_table_with_data" =>
        /\ TablesInDocument <= 1
        /\ Len(mgr) = 2 => Val(mgr[1].returned).at = "tm_await_insert_table"

\* ------------------------------------------------------------------- C29
\* C29: whenever modify_event reaches events.update with start_time,
\* end_time or attendees given, the body carries start and end as the
\* structured objects create_event builds for the same inputs ({date} or
\* {dateTime[, timeZone]}) and attendees as a list of {email} objects,
\* whether or not the pre-update fetch succeeded.
C29_StructuredShapes ==
    tool = "modify_event" =>
        \A i \in UpdateCalls :
            /\ ~IsNone(args.start_time) =>
                  calls[i].body["start"] = Some(TimeObject(Val(args.start_time), args.timezone))
            /\ ~IsNone(args.end_time) =>
                  calls[i].body["end"] = Some(TimeObject(Val(args.end_time), args.timezone))
            /\ ~IsNone(args.attendees) =>
                  calls[i].body["attendees"] = Some(V("emails", Val(args.attendees)))

\* ------------------------------------------------------------------- C30
\* The fields invocation i was asked to change.
ChangedBy(i) == {f \in TaskFields : ~IsNone(args[i][f])}

\* C30: when two update_task invocations on the same task change
\* different fields and both have completed, the task carries both
\* changes.
C30_BothChangesKept ==
    (/\ \A i \in Invocations : pc[i] = "done" /\ result[i] = TextResult("Task Updated")
     /\ \A i \in Invocations : ChangedBy(i) # {}
     /\ ChangedBy("first") \cap ChangedBy("second") = {}) =>
        \A i \in Invocations : \A f \in ChangedBy(i) : doc[f] = args[i][f]

=============================================================================
